---- MODULE Spec2Model ----
(***************************************************************************)
(* A model of the gen-ai-app demo scripts: the Streamlit upload UI         *)
(* (langchain/chatbot/app.py), the FAISS ChatInterface and DocumentLoader  *)
(* classes, and the Pinecone chatbot and data-loader scripts.              *)
(*                                                                         *)
(* Every script is its own process.  The variable `program` names the      *)
(* entry point a behaviour runs; only that program's actions are enabled   *)
(* and the state of the other programs stays as constructed.               *)
(***************************************************************************)
EXTENDS Integers, Sequences, FiniteSets, TLC

VARIABLES
    program,          \* the entry point this process runs
    env,              \* names of the secrets in os.environ when a script starts
    \* ---- langchain/chatbot/app.py: st.session_state and the widgets
    st_vectorstore,   \* st.session_state.vectorstore
    file_hashes,      \* st.session_state.file_hashes
    uploaded_files,   \* the file_uploader's value in the last script run
    app_status,       \* how the last script run ended
    app_loads,        \* history: successful PyPDFLoader loads per digest
    app_embeds,       \* history: embedding submissions per digest
    app_query,        \* what the question block of the last script run did
    \* ---- langchain/chatbot/chatbot_faiss.py: one ChatInterface object
    clients,          \* remote client objects this process has created
    ci_state,         \* "none" | "ready" | "failed" (its __init__ raised)
    ci_vectorstore,   \* self.vectorstore
    ci_qa_chain,      \* self.qa_chain: the store its retriever was built from
    chat_history,     \* self.chat_history
    ci_loop,          \* start_interactive_chat: running or not, show_sources
    ci_last,          \* the last call: its name, what it raised or returned
    ci_returned,      \* history: ask_question calls that returned an entry
    ci_answered,      \* history: the questions the chain answered, in order
    ci_ever_held,     \* history: a vectorstore has been set or loaded
    \* ---- langchain/chatbot/document_loader_faiss.py: one DocumentLoader
    dl_state,         \* "none" | "ready" | "failed" (its __init__ raised)
    dl_documents,     \* self.documents
    dl_vectorstore,   \* self.vectorstore
    dl_disk,          \* the index saved on disk by save_local
    dl_last,          \* the last call: name, argument, result, calls made
    dl_ever_held,     \* history: a vectorstore has been created or loaded
    \* ---- pinecone/chatbot.py: one PineconeChatbot object
    pcb_state,        \* "none" | "ready" | "failed" (__init__ raised) | "exited"
    pcb_loop,         \* run_interactive_chat: "off" | "on" | "ended" | "crashed"
    pcb_last,         \* the last call: name, inputs, result
    \* ---- pinecone/pincone_chat.py: the script
    pch_pc,           \* a Pinecone script's position:
                      \* "start" | "tests" | "loop" | "done" | "crashed"
    pch_i,            \* test questions answered
    pch_last,         \* the last step: name, inputs, result
    \* ---- langchain/chatbot/chatbot.py: the script
    lc_pc,            \* "start" | "loop" | "done" | "crashed"
    lc_last,          \* the last step: name, the line read, what it raised
    \* ---- pinecone/data_loader.py, pinecone/pinecone_data_loader.py
    ldr_state,        \* "none" | "ready" | "failed" (its __init__ raised)
    ldr_fs,           \* the folder "data" on disk
    ldr_index,        \* the remote index: listed or not, and its records
    ldr_runs,         \* history: pipeline runs made
    ldr_last          \* the last call: name, and what the run did

appVars == <<st_vectorstore, file_hashes, uploaded_files, app_status,
             app_loads, app_embeds, app_query>>

ciVars == <<ci_state, ci_vectorstore, ci_qa_chain, chat_history, ci_loop,
            ci_last, ci_returned, ci_answered, ci_ever_held>>

dlVars == <<dl_state, dl_documents, dl_vectorstore, dl_disk, dl_last, dl_ever_held>>

pcbVars == <<pcb_state, pcb_loop, pcb_last>>

pchVars == <<pch_pc, pch_i, pch_last>>

lcVars == <<lc_pc, lc_last>>

ldrVars == <<ldr_state, ldr_fs, ldr_index, ldr_runs, ldr_last>>

pineVars == <<pcbVars, pchVars, lcVars, ldrVars>>

vars == <<program, env, clients, appVars, ciVars, dlVars, pineVars>>

-----------------------------------------------------------------------------
(* Bounds of the model. *)

\* distinct uploaded file contents
NumContents == 3
\* files in one upload batch
MaxBatch == 2
\* ask_question calls between two clear_history calls
MaxCycles == 3

-----------------------------------------------------------------------------
(* Generic helpers. *)

Range(s) == {s[i] : i \in 1..Len(s)}

IsPrefix(s, t) == Len(s) <= Len(t) /\ SubSeq(t, 1, Len(s)) = s

SeqsUpTo(S, n) == UNION {[1..k -> S] : k \in 0..n}

Secrets == {"OPENAI_API_KEY", "PINE_CONE_API_KEY"}

Programs ==
    {"app", "chat_interface", "document_loader", "langchain_chatbot",
     "pinecone_chatbot", "pincone_chat", "pinecone_hello", "data_loader",
     "pinecone_data_loader"}

\* the secrets a script reads from os.environ as it starts (a class reads
\* them in its constructor, which is given the environment it finds)
SecretsOf(p) ==
    CASE p = "app" -> {"OPENAI_API_KEY"}
      [] p = "langchain_chatbot" -> {"OPENAI_API_KEY"}
      [] p = "pincone_chat" -> Secrets
      [] p = "pinecone_hello" -> {"PINE_CONE_API_KEY"}
      [] OTHER -> {}

-----------------------------------------------------------------------------
(* langchain/chatbot/app.py *)

Contents == 1..NumContents

\* hashlib.md5(file_bytes).hexdigest(): a function of the bytes alone, with
\* fewer digests than contents (contents 2k-1 and 2k collide).
file_hash(file_bytes) == (file_bytes + 1) \div 2

Digests == {file_hash(c) : c \in Contents}

\* PyPDFLoader(tmp_path).load(): one Document per page of the file.
PagesOf(file_bytes) == 1 + (file_bytes % 2)

loader_load(file_bytes) ==
    [p \in 1..PagesOf(file_bytes) |-> [source |-> file_bytes, page |-> p]]

\* a faulty variant: the seen-set is not consulted
IsNewFileAlways(file_md5, seen) == TRUE

\* `file_md5 not in st.session_state.file_hashes`
IsNewFile(file_md5, seen) == file_md5 \notin seen

\* The for loop over uploaded_files.  failAt is the position of the file
\* whose loader.load() raises (0: none does); the exception leaves the
\* script run, the hashes added so far stay in the session's set.
RECURSIVE upload_loop(_, _, _, _)
upload_loop(files, acc, i, failAt) ==
    IF i > Len(files) THEN acc
    ELSE LET file_md5 == file_hash(files[i]) IN
         IF IsNewFile(file_md5, acc.file_hashes)
         THEN IF failAt = i
              THEN [acc EXCEPT !.raised = TRUE]
              ELSE upload_loop(files,
                       [acc EXCEPT !.all_documents = @ \o loader_load(files[i]),
                                   !.file_hashes = @ \cup {file_md5},
                                   !.loaded = Append(@, file_md5),
                                   !.new_docs_loaded = TRUE],
                       i + 1, failAt)
         ELSE upload_loop(files, acc, i + 1, failAt)

\* RecursiveCharacterTextSplitter.split_documents: the chunks of every
\* document, in document order (here one chunk per page).
app_split_documents(all_documents) == all_documents

\* FAISS.from_documents / vectorstore.add_documents
NoVectorstore == [present |-> FALSE, docs |-> <<>>]

app_update_vectorstore(vectorstore, docs) ==
    IF ~vectorstore.present
    THEN [present |-> TRUE, docs |-> docs]
    ELSE [vectorstore EXCEPT !.docs = @ \o docs]

Bump(count, digests) ==
    [h \in DOMAIN count |-> IF h \in digests THEN count[h] + 1 ELSE count[h]]

\* Lines 83-112, reached when nothing above them raised.  The question box
\* is shown only `if st.session_state.vectorstore`; ask is what happens in
\* it: "none" (the box is empty), or the chain "answers" or "raises".
question_block(vectorstore, ask) ==
    IF ~vectorstore.present THEN "no_vectorstore"
    ELSE IF ask = "none" THEN "no_question"
    ELSE IF ask = "raises" THEN "raised"
    ELSE "answered"

\* One run of the script (Streamlit reruns it on every interaction).
\* indexFail: "none", or the step after the loop that raises.
AppRun(files, failAt, indexFail, ask) ==
    /\ program = "app"
    /\ IF "OPENAI_API_KEY" \notin env
       THEN \* os.environ["OPENAI_API_KEY"] raises KeyError at import time
            /\ app_status' = "KeyError"
            /\ UNCHANGED <<st_vectorstore, file_hashes, uploaded_files,
                           app_loads, app_embeds>>
       ELSE
       /\ uploaded_files' = files
       /\ IF files = <<>>
          THEN /\ app_status' = "idle"
               /\ UNCHANGED <<st_vectorstore, file_hashes, app_loads, app_embeds>>
          ELSE LET r == upload_loop(files,
                            [all_documents |-> <<>>, file_hashes |-> file_hashes,
                             loaded |-> <<>>, new_docs_loaded |-> FALSE,
                             raised |-> FALSE], 1, failAt)
               IN /\ file_hashes' = r.file_hashes
                  /\ app_loads' = Bump(app_loads, Range(r.loaded))
                  /\ IF r.raised
                     THEN /\ app_status' = "load_error"
                          /\ UNCHANGED <<st_vectorstore, app_embeds>>
                     ELSE IF r.new_docs_loaded
                     THEN IF indexFail = "split"
                          THEN /\ app_status' = "index_error"
                               /\ UNCHANGED <<st_vectorstore, app_embeds>>
                          ELSE /\ app_embeds' = Bump(app_embeds, Range(r.loaded))
                               /\ IF indexFail = "embed"
                                  THEN /\ app_status' = "index_error"
                                       /\ UNCHANGED st_vectorstore
                                  ELSE /\ app_status' = "updated"
                                       /\ st_vectorstore' =
                                            app_update_vectorstore(st_vectorstore,
                                                app_split_documents(r.all_documents))
                     ELSE /\ app_status' = "no_new"
                          /\ UNCHANGED <<st_vectorstore, app_embeds>>
    /\ app_query' = IF app_status' \in {"idle", "updated", "no_new"}
                    THEN question_block(st_vectorstore', ask) ELSE "not_reached"
    /\ UNCHANGED <<program, env, clients, ciVars, dlVars, pineVars>>

\* A rerun is caused by one widget: by the uploader, with new files, or by
\* the question box, with the files as they were.  (A failure of the loop
\* ends the run, so the later steps fail only in runs whose loop did not.)
AppNext ==
    \/ \E files \in SeqsUpTo(Contents, MaxBatch) :
          \/ \E failAt \in 0..Len(files) : AppRun(files, failAt, "none", "none")
          \/ \E indexFail \in {"split", "embed"} : AppRun(files, 0, indexFail, "none")
    \/ \E ask \in {"answers", "raises"} : AppRun(uploaded_files, 0, "none", ask)

AppInit ==
    /\ st_vectorstore = NoVectorstore
    /\ file_hashes = {}
    /\ uploaded_files = <<>>
    /\ app_status = "start"
    /\ app_loads = [h \in Digests |-> 0]
    /\ app_embeds = [h \in Digests |-> 0]
    /\ app_query = "not_reached"

-----------------------------------------------------------------------------
(* Text.  A Python str is a sequence of one-character strings, so that     *)
(* strip(), lower(), startswith() and `in` are computed, not assumed.      *)

LowerChar(c) ==
    CASE c = "E" -> "e" [] c = "X" -> "x" [] c = "I" -> "i" [] c = "T" -> "t"
      [] c = "S" -> "s" [] c = "O" -> "o" [] c = "F" -> "f" [] c = "Q" -> "q"
      [] c = "B" -> "b" [] c = "Y" -> "y" [] c = "U" -> "u" [] c = "H" -> "h"
      [] OTHER -> c

lower(s) == [i \in 1..Len(s) |-> LowerChar(s[i])]

RECURSIVE lstrip(_)
lstrip(s) == IF s # <<>> /\ Head(s) = " " THEN lstrip(Tail(s)) ELSE s

RECURSIVE rstrip(_)
rstrip(s) ==
    IF s # <<>> /\ s[Len(s)] = " " THEN rstrip(SubSeq(s, 1, Len(s) - 1)) ELSE s

strip(s) == rstrip(lstrip(s))

startswith(s, prefix) == IsPrefix(prefix, s)

\* `sub in s`
contains(s, sub) ==
    \E i \in 1..(Len(s) - Len(sub) + 1) : SubSeq(s, i, i + Len(sub) - 1) = sub

W_exit == <<"e", "x", "i", "t">>
W_quit == <<"q", "u", "i", "t">>
W_bye == <<"b", "y", "e">>
W_stats == <<"s", "t", "a", "t", "s">>
W_help == <<"h", "e", "l", "p">>
W_history == <<"h", "i", "s", "t", "o", "r", "y">>
W_sources == <<"s", "o", "u", "r", "c", "e", "s">>
W_off == <<"o", "f", "f">>
W_q1 == <<"q", "1">>
W_q2 == <<"q", "2">>

-----------------------------------------------------------------------------
(* langchain/chatbot/chatbot_faiss.py: class ChatInterface *)

NoneVal == "None"

\* vectorstores a caller can hand over or load from disk
Stores == {"vsA", "vsB"}

\* the openai_api_key argument of a constructor: None, "" or a key
PassedKeys == {NoneVal, "", "sk-arg"}

\* `openai_api_key or os.environ.get("OPENAI_API_KEY")`
key_or_environ(openai_api_key, environ) ==
    IF openai_api_key \notin {NoneVal, ""} THEN openai_api_key
    ELSE IF "OPENAI_API_KEY" \in environ THEN "sk-env" ELSE NoneVal

\* a faulty variant: the key is never found missing
key_never_missing(openai_api_key) == FALSE

\* `if not self.openai_api_key: raise ValueError(...)`
key_missing(openai_api_key) == openai_api_key \in {NoneVal, ""}

\* a call: its name, what it raised ("no": nothing), what it returned, and
\* what the QA chain did in it ("none": the chain was not invoked)
\* and, for a pass of the interactive loop, the line that input() returned
\* and the documents the index ranked for the question the chain was given
\* and what print_response printed in that pass
NoCall == [op |-> "none", raised |-> "no", ret |-> [none |-> TRUE], chain |-> "none",
           line |-> <<>>, ranked |-> <<>>, printed |-> [none |-> TRUE]]

Call(op, raised, ret) ==
    [op |-> op, raised |-> raised, ret |-> ret, chain |-> "none", line |-> <<>>,
     ranked |-> <<>>, printed |-> [none |-> TRUE]]

NoneRet == [none |-> TRUE]

\* ChatInterface.__init__
ChatInterface_init(openai_api_key, environ) ==
    /\ program = "chat_interface"
    /\ ci_state = "none"
    /\ IF key_missing(key_or_environ(openai_api_key, environ))
       THEN /\ ci_state' = "failed"
            /\ ci_last' = Call("__init__", "ValueError", [key |-> openai_api_key, environ |-> environ])
            /\ UNCHANGED clients
       ELSE /\ ci_state' = "ready"
            /\ clients' = clients \cup {"ChatOpenAI", "OpenAIEmbeddings"}
            /\ ci_last' = Call("__init__", "no", [key |-> openai_api_key, environ |-> environ])
    /\ ci_vectorstore' = NoneVal
    /\ ci_qa_chain' = NoneVal
    /\ chat_history' = <<>>
    /\ UNCHANGED <<ci_loop, ci_returned, ci_answered, ci_ever_held>>
    /\ UNCHANGED <<program, env, appVars, dlVars, pineVars>>

\* ChatInterface._setup_qa_chain: the chain is built from self.vectorstore;
\* chain_ok = FALSE: as_retriever / RetrievalQA.from_chain_type raises.
setup_qa_chain(vectorstore, qa_chain, chain_ok) ==
    IF vectorstore = NoneVal
    THEN [raised |-> "ValueError", qa_chain |-> qa_chain]
    ELSE IF ~chain_ok
    THEN [raised |-> "Exception", qa_chain |-> qa_chain]
    ELSE [raised |-> "no", qa_chain |-> vectorstore]

\* ChatInterface.load_vectorstore: loaded is the store FAISS.load_local
\* returns, or NoneVal when it raises.
load_vectorstore(loaded, chain_ok) ==
    /\ program = "chat_interface" /\ ci_state = "ready" /\ ~ci_loop.on
    /\ IF loaded = NoneVal
       THEN /\ ci_last' = Call("load_vectorstore", "Exception", NoneRet)
            /\ UNCHANGED <<ci_vectorstore, ci_qa_chain, ci_ever_held>>
       ELSE LET r == setup_qa_chain(loaded, ci_qa_chain, chain_ok) IN
            /\ ci_vectorstore' = loaded
            /\ ci_qa_chain' = r.qa_chain
            /\ ci_ever_held' = TRUE
            /\ ci_last' = Call("load_vectorstore", r.raised, NoneRet)
    /\ UNCHANGED <<ci_state, chat_history, ci_loop, ci_returned,
                   ci_answered>>
    /\ UNCHANGED <<program, env, clients, appVars, dlVars, pineVars>>

\* ChatInterface.set_vectorstore
set_vectorstore(vectorstore, chain_ok) ==
    /\ program = "chat_interface" /\ ci_state = "ready" /\ ~ci_loop.on
    /\ LET r == setup_qa_chain(vectorstore, ci_qa_chain, chain_ok) IN
       /\ ci_vectorstore' = vectorstore
       /\ ci_qa_chain' = r.qa_chain
       /\ ci_ever_held' = (ci_ever_held \/ vectorstore # NoneVal)
       /\ ci_last' = Call("set_vectorstore", r.raised, NoneRet)
    /\ UNCHANGED <<ci_state, chat_history, ci_loop, ci_returned,
                   ci_answered>>
    /\ UNCHANGED <<program, env, clients, appVars, dlVars, pineVars>>

\* The documents a chain response can carry: page_content length and the
\* metadata attribute ("absent": no attribute, "none": None, whose .get
\* raises, "empty": {}, "src": {'source': ...}).
DocShort == [len |-> 10, meta |-> "src"]
DocLong == [len |-> 400, meta |-> "absent"]
DocNoSource == [len |-> 10, meta |-> "empty"]
DocBadMeta == [len |-> 10, meta |-> "none"]

\* What the calls made by self.qa_chain.invoke do: one raises, or the chat
\* model returns its result; source_documents are the documents of the
\* index as it ranks them for the question, the best first.
ChainRaises == [kind |-> "raise", has_result |-> FALSE, result |-> <<>>,
                source_documents |-> <<>>]
ChainAnswers == [kind |-> "response", has_result |-> TRUE, result |-> <<"a1">>,
                 source_documents |-> <<DocLong, DocShort, DocNoSource, DocShort,
                                        DocLong>>]
ChainNoResult == [kind |-> "response", has_result |-> FALSE, result |-> <<>>,
                  source_documents |-> <<>>]
ChainMalformed == [kind |-> "response", has_result |-> TRUE, result |-> <<"a1">>,
                   source_documents |-> <<DocNoSource, DocBadMeta>>]

ChainOutcomes == {ChainRaises, ChainAnswers, ChainNoResult, ChainMalformed}

\* index.query(top_k=...) and a retriever with search_kwargs {"k": ...}: the
\* top_k best records of the index, the best first
index_query(ranked, top_k) ==
    SubSeq(ranked, 1, IF Len(ranked) < top_k THEN Len(ranked) ELSE top_k)

\* `search_kwargs={"k": 4}` of _setup_qa_chain
RetrieverK == 4

\* The chain built by _setup_qa_chain: it retrieves with k = 4 and returns
\* the retrieved documents with the result (return_source_documents=True).
qa_chain_invoke(outcome) ==
    [outcome EXCEPT !.source_documents = index_query(@, RetrieverK)]

\* the outcomes after which ask_question has an answer to store
Answered(outcome) == outcome \in {ChainAnswers, ChainNoResult}

\* doc.page_content[:300] + "..." if len(doc.page_content) > 300
SourcePreviewLen == 300

source_info(doc) ==
    [content |-> IF doc.len > SourcePreviewLen
                 THEN [len |-> SourcePreviewLen, ellipsis |-> TRUE]
                 ELSE [len |-> doc.len, ellipsis |-> FALSE],
     metadata |-> IF doc.meta = "absent" THEN "empty" ELSE doc.meta,
     source_file |-> IF doc.meta = "src" THEN "source" ELSE "Unknown"]

\* the loop over source_docs raises at a document whose metadata is None
ProcessingRaises(source_docs) ==
    \E i \in 1..Len(source_docs) : source_docs[i].meta = "none"

error_msg(e) == <<"Error processing question: ", e>>

ErrorEntry(question, e) ==
    [question |-> question, answer |-> error_msg(e), sources |-> <<>>]

\* a faulty variant: the history keeps its last two entries only
history_evict(history, chat_entry) ==
    IF Len(history) >= 2 THEN Append(Tail(history), chat_entry)
    ELSE Append(history, chat_entry)

\* a faulty variant: the new entry goes first
history_prepend(history, chat_entry) == <<chat_entry>> \o history

\* `self.chat_history.append(chat_entry)`
history_append(history, chat_entry) == Append(history, chat_entry)

\* a faulty variant: the entry of a failed call is stored in the history too
ask_question_stores_errors(qa_chain, history, question, outcome) ==
    IF qa_chain = NoneVal
    THEN [raised |-> "ValueError", ret |-> NoneRet, chat_history |-> history]
    ELSE LET source_docs == qa_chain_invoke(outcome).source_documents
             chat_entry ==
                 IF outcome.kind = "raise" THEN ErrorEntry(question, "APIError")
                 ELSE IF ProcessingRaises(source_docs)
                 THEN ErrorEntry(question, "AttributeError")
                 ELSE [question |-> question,
                       answer |-> IF outcome.has_result THEN outcome.result
                                  ELSE <<"No answer found">>,
                       sources |-> [i \in 1..Len(source_docs) |->
                                       source_info(source_docs[i])]]
         IN [raised |-> "no", ret |-> chat_entry,
             chat_history |-> history_append(history, chat_entry)]

\* ChatInterface.ask_question (the entry's timestamp, a wall-clock string,
\* is left out).  Returns what is raised, what is returned and the history.
ask_question(qa_chain, history, question, outcome) ==
    IF qa_chain = NoneVal
    THEN [raised |-> "ValueError", ret |-> NoneRet, chat_history |-> history]
    ELSE IF outcome.kind = "raise"
    THEN [raised |-> "no", ret |-> ErrorEntry(question, "APIError"),
          chat_history |-> history]
    ELSE LET result == qa_chain_invoke(outcome)
             source_docs == result.source_documents
         IN
         IF ProcessingRaises(source_docs)
         THEN [raised |-> "no", ret |-> ErrorEntry(question, "AttributeError"),
               chat_history |-> history]
         ELSE LET chat_entry ==
                      [question |-> question,
                       answer |-> IF result.has_result THEN result.result
                                  ELSE <<"No answer found">>,
                       sources |-> [i \in 1..Len(source_docs) |->
                                       source_info(source_docs[i])]]
              IN [raised |-> "no", ret |-> chat_entry,
                  chat_history |-> history_append(history, chat_entry)]

\* the questions a caller asks: the stripped non-command input lines
Questions == {W_q1, W_q2}

\* ChatInterface.print_response: what is printed for a response
print_response(response, show_sources) ==
    [answer |-> response.answer,
     sources |-> IF show_sources /\ response.sources # <<>>
                 THEN response.sources ELSE <<>>]

\* the effect of one ask_question call on the object and on the histories
\* (in the interactive loop the response is printed)
AskEffect(op, line, question, outcome) ==
    LET r == ask_question(ci_qa_chain, chat_history, question, outcome) IN
    /\ chat_history' = r.chat_history
    /\ ci_last' = [Call(op, r.raised, r.ret) EXCEPT
                       !.chain = IF ci_qa_chain = NoneVal THEN "none" ELSE outcome.kind,
                       !.line = line,
                       !.ranked = IF ci_qa_chain = NoneVal THEN <<>>
                                  ELSE outcome.source_documents,
                       !.printed = IF op = "loop:question" /\ r.raised = "no"
                                   THEN print_response(r.ret, ci_loop.show_sources)
                                   ELSE [none |-> TRUE]]
    /\ ci_returned' = IF r.raised = "no" THEN ci_returned + 1 ELSE ci_returned
    /\ ci_answered' = IF r.raised = "no" /\ Answered(outcome)
                      THEN Append(ci_answered, question) ELSE ci_answered

AskQuestion(question, outcome) ==
    /\ program = "chat_interface" /\ ci_state = "ready" /\ ~ci_loop.on
    /\ ci_returned < MaxCycles
    /\ AskEffect("ask_question", <<>>, question, outcome)
    /\ UNCHANGED <<ci_state, ci_vectorstore, ci_qa_chain, ci_loop,
                   ci_ever_held>>
    /\ UNCHANGED <<program, env, clients, appVars, dlVars, pineVars>>

\* ChatInterface.clear_history
clear_history ==
    /\ program = "chat_interface" /\ ci_state = "ready" /\ ~ci_loop.on
    /\ chat_history' = <<>>
    /\ ci_returned' = 0
    /\ ci_answered' = <<>>
    /\ ci_last' = Call("clear_history", "no", NoneRet)
    /\ UNCHANGED <<ci_state, ci_vectorstore, ci_qa_chain, ci_loop,
                   ci_ever_held>>
    /\ UNCHANGED <<program, env, clients, appVars, dlVars, pineVars>>

\* ChatInterface._show_chat_history: prints, changes nothing
show_chat_history_ret(history) == [shown |-> Len(history)]

\* ChatInterface.get_vectorstore_info
get_vectorstore_info_ret(vectorstore, history) ==
    IF vectorstore = NoneVal
    THEN [error |-> "No vectorstore loaded"]
    ELSE [index |-> vectorstore, chat_history_length |-> Len(history)]

get_vectorstore_info ==
    /\ program = "chat_interface" /\ ci_state = "ready" /\ ~ci_loop.on
    /\ ci_last' = Call("get_vectorstore_info", "no",
                       get_vectorstore_info_ret(ci_vectorstore, chat_history))
    /\ UNCHANGED <<ci_state, ci_vectorstore, ci_qa_chain,
                   chat_history, ci_loop, ci_returned, ci_answered, ci_ever_held>>
    /\ UNCHANGED <<program, env, clients, appVars, dlVars, pineVars>>

show_chat_history ==
    /\ program = "chat_interface" /\ ci_state = "ready" /\ ~ci_loop.on
    /\ ci_last' = Call("_show_chat_history", "no",
                       show_chat_history_ret(chat_history))
    /\ UNCHANGED <<ci_state, ci_vectorstore, ci_qa_chain,
                   chat_history, ci_loop, ci_returned, ci_answered, ci_ever_held>>
    /\ UNCHANGED <<program, env, clients, appVars, dlVars, pineVars>>

\* ChatInterface.start_interactive_chat, up to the first prompt
start_interactive_chat(show_sources) ==
    /\ program = "chat_interface" /\ ci_state = "ready" /\ ~ci_loop.on
    /\ IF ci_qa_chain = NoneVal
       THEN /\ ci_last' = Call("start_interactive_chat", "ValueError", NoneRet)
            /\ UNCHANGED ci_loop
       ELSE /\ ci_last' = Call("start_interactive_chat", "no", NoneRet)
            /\ ci_loop' = [on |-> TRUE, show_sources |-> show_sources]
    /\ UNCHANGED <<ci_state, ci_vectorstore, ci_qa_chain,
                   chat_history, ci_returned, ci_answered, ci_ever_held>>
    /\ UNCHANGED <<program, env, clients, appVars, dlVars, pineVars>>

\* the lines typed at the prompt
CiLines == {<<>>, <<" ", " ">>, <<" ">> \o <<"E", "x", "i", "t">> \o <<" ">>,
            W_history, <<"S", "o", "u", "r", "c", "e", "s", " ", "O", "F", "F">>,
            W_sources, W_q1, <<" ">> \o W_q2, W_exit \o <<" ">> \o W_q1}

\* a faulty variant: a command word is matched as a prefix of the line
ci_command_prefix(question) ==
    IF question = <<>> THEN "empty"
    ELSE IF startswith(lower(question), W_exit) THEN "exit"
    ELSE IF startswith(lower(question), W_history) THEN "history"
    ELSE IF startswith(lower(question), W_sources) THEN "sources"
    ELSE "question"

\* Lines 202-218: what the loop takes the stripped line for
ci_command(question) ==
    IF question = <<>> THEN "empty"
    ELSE IF lower(question) = W_exit THEN "exit"
    ELSE IF lower(question) = W_history THEN "history"
    ELSE IF startswith(lower(question), W_sources) THEN "sources"
    ELSE "question"

\* a faulty variant: a 'sources' line turns the display on
sources_always_on(question) == TRUE

\* lines 214-220: what a 'sources' line sets show_sources to
sources_setting(question) == ~contains(lower(question), W_off)

\* One pass of the while loop of start_interactive_chat.  input is what
\* input() does: returns a line, or raises KeyboardInterrupt or EOFError.
ChatLoopStep(input, text, outcome) ==
    /\ program = "chat_interface" /\ ci_state = "ready" /\ ci_loop.on
    /\ LET question == strip(text)
           command == ci_command(question)
           Handled(op, ret) == ci_last' = [Call(op, "no", ret) EXCEPT !.line = text]
       IN
       IF input = "KeyboardInterrupt"
       THEN /\ ci_loop' = [ci_loop EXCEPT !.on = FALSE]
            /\ ci_last' = Call("loop:interrupt", "no", NoneRet)
            /\ UNCHANGED <<chat_history, ci_returned, ci_answered>>
       ELSE IF input = "EOFError"
       THEN \* except Exception: prints the error, the loop goes on
            /\ ci_last' = Call("loop:error", "no", NoneRet)
            /\ UNCHANGED <<ci_loop, chat_history, ci_returned, ci_answered>>
       ELSE IF command = "empty"
       THEN /\ Handled("loop:empty", NoneRet)
            /\ UNCHANGED <<ci_loop, chat_history, ci_returned, ci_answered>>
       ELSE IF command = "exit"
       THEN /\ ci_loop' = [ci_loop EXCEPT !.on = FALSE]
            /\ Handled("loop:exit", NoneRet)
            /\ UNCHANGED <<chat_history, ci_returned, ci_answered>>
       ELSE IF command = "history"
       THEN /\ Handled("loop:history", show_chat_history_ret(chat_history))
            /\ UNCHANGED <<ci_loop, chat_history, ci_returned, ci_answered>>
       ELSE IF command = "sources"
       THEN /\ ci_loop' = [ci_loop EXCEPT !.show_sources = sources_setting(question)]
            /\ Handled("loop:sources", NoneRet)
            /\ UNCHANGED <<chat_history, ci_returned, ci_answered>>
       ELSE /\ ci_returned < MaxCycles
            /\ AskEffect("loop:question", text, question, outcome)
            /\ UNCHANGED ci_loop
    /\ UNCHANGED <<ci_state, ci_vectorstore, ci_qa_chain,
                   ci_ever_held>>
    /\ UNCHANGED <<program, env, clients, appVars, dlVars, pineVars>>

CiNext ==
    \/ \E k \in PassedKeys, environ \in SUBSET {"OPENAI_API_KEY"} :
          ChatInterface_init(k, environ)
    \/ \E loaded \in Stores \cup {NoneVal}, chain_ok \in BOOLEAN :
          load_vectorstore(loaded, chain_ok)
    \/ \E vectorstore \in Stores \cup {NoneVal}, chain_ok \in BOOLEAN :
          set_vectorstore(vectorstore, chain_ok)
    \/ \E question \in Questions, outcome \in ChainOutcomes :
          AskQuestion(question, outcome)
    \/ clear_history
    \/ get_vectorstore_info
    \/ show_chat_history
    \/ \E show_sources \in BOOLEAN : start_interactive_chat(show_sources)
    \/ \E input \in {"KeyboardInterrupt", "EOFError"} :
          ChatLoopStep(input, <<>>, ChainRaises)
    \/ \E text \in CiLines :
          \E outcome \in IF strip(text) \in Questions THEN ChainOutcomes
                          ELSE {ChainRaises} :
              ChatLoopStep("line", text, outcome)

CiInit ==
    /\ clients = {}
    /\ ci_state = "none"
    /\ ci_vectorstore = NoneVal
    /\ ci_qa_chain = NoneVal
    /\ chat_history = <<>>
    /\ ci_loop = [on |-> FALSE, show_sources |-> TRUE]
    /\ ci_last = NoCall
    /\ ci_returned = 0
    /\ ci_answered = <<>>
    /\ ci_ever_held = FALSE

-----------------------------------------------------------------------------
(* langchain/chatbot/document_loader_faiss.py: class DocumentLoader *)

endswith(s, suffix) ==
    Len(s) >= Len(suffix) /\ SubSeq(s, Len(s) - Len(suffix) + 1, Len(s)) = suffix

Ext_pdf == <<".", "p", "d", "f">>

\* The files a folder can hold: a name as os.listdir gives it, the pages
\* PyPDFLoader finds in it (chunks: what the splitter makes of each page),
\* and whether PyPDFLoader can read it at all.
FileGood == [name |-> <<"a">> \o Ext_pdf, readable |-> TRUE, chunks |-> <<2, 1>>]
FileBlank == [name |-> <<"b">> \o Ext_pdf, readable |-> TRUE, chunks |-> <<0>>]
FileBroken == [name |-> <<"c">> \o Ext_pdf, readable |-> FALSE, chunks |-> <<>>]
FileUpper == [name |-> <<"d", ".", "P", "D", "F">>, readable |-> TRUE, chunks |-> <<1>>]
FileText == [name |-> <<"e", ".", "t", "x", "t">>, readable |-> FALSE, chunks |-> <<>>]

FolderMissing == [exists |-> FALSE, files |-> <<>>]
FolderEmpty == [exists |-> TRUE, files |-> <<>>]
FolderNoPdf == [exists |-> TRUE, files |-> <<FileText, FileUpper>>]
FolderBroken == [exists |-> TRUE, files |-> <<FileBroken>>]
FolderBlank == [exists |-> TRUE, files |-> <<FileBlank>>]
FolderMixed == [exists |-> TRUE, files |-> <<FileBroken, FileGood, FileText>>]

Folders == {FolderMissing, FolderEmpty, FolderNoPdf, FolderBroken, FolderBlank,
            FolderMixed}

\* `[... for file in os.listdir(pdf_folder) if file.endswith(".pdf")]`
pdf_files_of(folder) == SelectSeq(folder.files, LAMBDA f : endswith(f.name, Ext_pdf))

\* PyPDFLoader(file_path).load(): one Document per page
pdf_pages(file) ==
    [p \in 1..Len(file.chunks) |->
        [source |-> file.name, page |-> p, chunks |-> file.chunks[p]]]

\* the for loop of load_pdf_files: a file that cannot be read is skipped
RECURSIVE load_each(_)
load_each(files) ==
    IF files = <<>> THEN <<>>
    ELSE (IF Head(files).readable THEN pdf_pages(Head(files)) ELSE <<>>)
         \o load_each(Tail(files))

\* What a method does: what it raises ("no": nothing), what it returns, the
\* object's attributes and the saved index on disk after it, and the methods
\* and library calls it made, in order.
Done(raised, ret, self, disk, calls) ==
    [raised |-> raised, ret |-> ret, self |-> self, disk |-> disk, calls |-> calls]

\* a faulty variant: an empty file list is let through
no_pdf_files_ignored(pdf_files) == FALSE

\* `if not pdf_files: raise ValueError("No PDF files found ...")`
no_pdf_files(pdf_files) == pdf_files = <<>>

\* `if not os.path.exists(pdf_folder): raise FileNotFoundError(...)`
folder_missing(folder) == ~folder.exists

\* DocumentLoader.load_pdf_files
load_pdf_files(self, disk, folder) ==
    IF folder_missing(folder)
    THEN Done("FileNotFoundError", <<>>, self, disk, <<"load_pdf_files">>)
    ELSE IF no_pdf_files(pdf_files_of(folder))
    THEN Done("ValueError", <<>>, self, disk, <<"load_pdf_files">>)
    ELSE LET all_documents == load_each(pdf_files_of(folder)) IN
         Done("no", all_documents, [self EXCEPT !.documents = all_documents],
              disk, <<"load_pdf_files">>)

\* RecursiveCharacterTextSplitter.split_documents: the chunks of each
\* document, in document order
RECURSIVE text_splitter_split(_)
text_splitter_split(docs) ==
    IF docs = <<>> THEN <<>>
    ELSE [k \in 1..Head(docs).chunks |->
             [source |-> Head(docs).source, page |-> Head(docs).page, chunk |-> k]]
         \o text_splitter_split(Tail(docs))

\* an Optional[List[Document]] argument
NoArg == [given |-> FALSE, docs |-> <<>>]

Arg(docs) == [given |-> TRUE, docs |-> docs]

\* DocumentLoader.split_documents: `documents or self.documents`
split_documents(self, disk, documents) ==
    LET docs_to_split == IF ~documents.given \/ documents.docs = <<>>
                         THEN self.documents ELSE documents.docs
    IN IF docs_to_split = <<>>
       THEN Done("ValueError", <<>>, self, disk, <<"split_documents">>)
       ELSE Done("no", text_splitter_split(docs_to_split), self, disk,
                 <<"split_documents">>)

\* DocumentLoader.create_vectorstore; embed_ok = FALSE: FAISS.from_documents
\* (the embedding request) raises
create_vectorstore(self, disk, documents, embed_ok) ==
    LET s == IF ~documents.given THEN split_documents(self, disk, NoArg)
             ELSE Done("no", documents.docs, self, disk, <<>>)
        calls == <<"create_vectorstore">> \o s.calls
    IN IF s.raised # "no" THEN Done(s.raised, <<>>, self, disk, calls)
       ELSE IF s.ret = <<>> THEN Done("ValueError", <<>>, self, disk, calls)
       ELSE IF ~embed_ok
       THEN Done("Exception", <<>>, self, disk, Append(calls, "FAISS.from_documents"))
       ELSE Done("no", s.ret,
                 [self EXCEPT !.vectorstore = [present |-> TRUE, docs |-> s.ret]],
                 disk, Append(calls, "FAISS.from_documents"))

\* a faulty variant: a missing vectorstore is let through
no_vectorstore_ignored(vectorstore) == FALSE

\* `if not self.vectorstore: raise ValueError(...)`
no_vectorstore(vectorstore) == ~vectorstore.present

\* DocumentLoader.save_vectorstore; save_ok = FALSE: save_local raises
save_vectorstore(self, disk, save_ok) ==
    IF no_vectorstore(self.vectorstore)
    THEN Done("ValueError", <<>>, self, disk, <<"save_vectorstore">>)
    ELSE IF ~save_ok
    THEN Done("Exception", <<>>, self, disk, <<"save_vectorstore", "save_local">>)
    ELSE Done("no", <<>>, self, self.vectorstore, <<"save_vectorstore", "save_local">>)

\* DocumentLoader.load_vectorstore; load_ok = FALSE: FAISS.load_local raises
\* (as it does when nothing is saved at the path)
dl_load_vectorstore(self, disk, load_ok) ==
    IF ~load_ok \/ ~disk.present
    THEN Done("Exception", <<>>, self, disk, <<"load_vectorstore", "load_local">>)
    ELSE Done("no", disk.docs, [self EXCEPT !.vectorstore = disk], disk,
              <<"load_vectorstore", "load_local">>)

\* DocumentLoader.get_vector_info
get_vector_info(self, disk) ==
    IF no_vectorstore(self.vectorstore)
    THEN Done("ValueError", <<>>, self, disk, <<"get_vector_info">>)
    ELSE Done("no", <<Len(self.vectorstore.docs)>>, self, disk, <<"get_vector_info">>)

\* `num_to_show = min(num_samples, total_vectors)`
Min(a, b) == IF a <= b THEN a ELSE b

\* DocumentLoader.print_vector_samples: returns None, prints the samples
print_vector_samples(self, disk, num_samples) ==
    IF no_vectorstore(self.vectorstore)
    THEN Done("ValueError", <<>>, self, disk, <<"print_vector_samples">>)
    ELSE Done("no", <<Min(num_samples, Len(self.vectorstore.docs))>>, self, disk,
              <<"print_vector_samples">>)

\* `search_kwargs or {"k": 4}`
DefaultTopK == 4

\* DocumentLoader.get_retriever; search_k = 0: no search_kwargs given
get_retriever(self, disk, search_k) ==
    IF no_vectorstore(self.vectorstore)
    THEN Done("ValueError", <<>>, self, disk, <<"get_retriever">>)
    ELSE Done("no", <<IF search_k = 0 THEN DefaultTopK ELSE search_k>>, self, disk,
              <<"get_retriever">>)

\* DocumentLoader.process_folder; save_path = FALSE: no path given
process_folder(self, disk, folder, save_path, embed_ok, save_ok) ==
    LET l == load_pdf_files(self, disk, folder) IN
    IF l.raised # "no" THEN Done(l.raised, <<>>, l.self, l.disk, l.calls)
    ELSE LET s == split_documents(l.self, l.disk, Arg(l.ret)) IN
    IF s.raised # "no" THEN Done(s.raised, <<>>, s.self, s.disk, l.calls \o s.calls)
    ELSE LET c == create_vectorstore(s.self, s.disk, Arg(s.ret), embed_ok) IN
    IF c.raised # "no"
    THEN Done(c.raised, <<>>, c.self, c.disk, l.calls \o s.calls \o c.calls)
    ELSE IF ~save_path
    THEN Done("no", c.ret, c.self, c.disk, l.calls \o s.calls \o c.calls)
    ELSE LET v == save_vectorstore(c.self, c.disk, save_ok) IN
         Done(v.raised, IF v.raised = "no" THEN c.ret ELSE <<>>, v.self, v.disk,
              l.calls \o s.calls \o c.calls \o v.calls)

\* DocumentLoader.__init__
DocumentLoader_init(openai_api_key, environ) ==
    /\ program = "document_loader"
    /\ dl_state = "none"
    /\ IF key_missing(key_or_environ(openai_api_key, environ))
       THEN /\ dl_state' = "failed"
            /\ dl_last' = [op |-> "__init__", raised |-> "ValueError", ret |-> <<>>,
                           calls |-> <<>>,
                           arg |-> [key |-> openai_api_key, environ |-> environ]]
            /\ UNCHANGED clients
       ELSE /\ dl_state' = "ready"
            /\ clients' = clients \cup {"OpenAIEmbeddings"}
            /\ dl_last' = [op |-> "__init__", raised |-> "no", ret |-> <<>>,
                           calls |-> <<>>,
                           arg |-> [key |-> openai_api_key, environ |-> environ]]
    /\ dl_documents' = <<>>
    /\ dl_vectorstore' = NoVectorstore
    /\ UNCHANGED <<dl_disk, dl_ever_held>>
    /\ UNCHANGED <<program, env, appVars, ciVars, pineVars>>

dl_self == [documents |-> dl_documents, vectorstore |-> dl_vectorstore]

\* a call of a method of the constructed loader, and what it leaves behind
DlCall(op, arg, r) ==
    /\ program = "document_loader"
    /\ dl_state = "ready"
    /\ dl_documents' = r.self.documents
    /\ dl_vectorstore' = r.self.vectorstore
    /\ dl_disk' = r.disk
    /\ dl_ever_held' = (dl_ever_held \/ r.self.vectorstore.present)
    /\ dl_last' = [op |-> op, raised |-> r.raised, ret |-> r.ret, calls |-> r.calls,
                   arg |-> arg]
    /\ UNCHANGED <<dl_state, clients>>
    /\ UNCHANGED <<program, env, appVars, ciVars, pineVars>>

\* the document lists a caller passes to split_documents / create_vectorstore
DocArgs == {NoArg, Arg(<<>>), Arg(pdf_pages(FileGood))}

ChunkArgs == {NoArg, Arg(<<>>), Arg(text_splitter_split(pdf_pages(FileGood)))}

NoArgs == [none |-> TRUE]

DlNext ==
    \/ \E k \in PassedKeys, environ \in SUBSET {"OPENAI_API_KEY"} :
          DocumentLoader_init(k, environ)
    \/ \E folder \in Folders :
          DlCall("load_pdf_files", folder, load_pdf_files(dl_self, dl_disk, folder))
    \/ \E documents \in DocArgs :
          DlCall("split_documents", documents,
                 split_documents(dl_self, dl_disk, documents))
    \/ \E documents \in ChunkArgs, embed_ok \in BOOLEAN :
          DlCall("create_vectorstore", documents,
                 create_vectorstore(dl_self, dl_disk, documents, embed_ok))
    \/ \E save_ok \in BOOLEAN :
          DlCall("save_vectorstore", NoArgs, save_vectorstore(dl_self, dl_disk, save_ok))
    \/ \E load_ok \in BOOLEAN :
          DlCall("load_vectorstore", NoArgs,
                 dl_load_vectorstore(dl_self, dl_disk, load_ok))
    \/ DlCall("get_vector_info", NoArgs, get_vector_info(dl_self, dl_disk))
    \/ \E num_samples \in {1, 3} :
          DlCall("print_vector_samples", NoArgs,
                 print_vector_samples(dl_self, dl_disk, num_samples))
    \/ \E search_k \in {0, 2, 6} :
          DlCall("get_retriever", [search_k |-> search_k],
                 get_retriever(dl_self, dl_disk, search_k))
    \/ \E folder \in Folders, save_path, embed_ok, save_ok \in BOOLEAN :
          DlCall("process_folder", folder,
                 process_folder(dl_self, dl_disk, folder, save_path, embed_ok, save_ok))

DlInit ==
    /\ dl_state = "none"
    /\ dl_documents = <<>>
    /\ dl_vectorstore = NoVectorstore
    /\ dl_disk = NoVectorstore
    /\ dl_last = [op |-> "none", raised |-> "no", ret |-> <<>>, calls |-> <<>>,
                  arg |-> NoArgs]
    /\ dl_ever_held = FALSE

-----------------------------------------------------------------------------
(* pinecone/chatbot.py (class PineconeChatbot) and pinecone/pincone_chat.py *)
(* (the same functions at module level).                                    *)

\* the matches index.query can return: a score, and the metadata's text
\* (has_text = FALSE: a record upserted without 'text' in its metadata)
Match1 == [score |-> 9, has_text |-> TRUE, text |-> "t1"]
Match2 == [score |-> 7, has_text |-> TRUE, text |-> "t2"]
Match3 == [score |-> 7, has_text |-> TRUE, text |-> "t3"]
Match4 == [score |-> 6, has_text |-> TRUE, text |-> "t4"]
Match5 == [score |-> 6, has_text |-> TRUE, text |-> "t5"]
MatchNoText == [score |-> 5, has_text |-> FALSE, text |-> ""]

\* What the two remote calls of search_knowledge_base do: the embedding
\* request raises, the query raises, or the query is answered; matches are
\* the records of the index as it ranks them for the query, the best first.
SearchEmbedRaises == [kind |-> "embed_raises", matches |-> <<>>]
SearchQueryRaises == [kind |-> "query_raises", matches |-> <<>>]
SearchFinds(matches) == [kind |-> "results", matches |-> matches]

SearchOutcomes ==
    {SearchEmbedRaises, SearchQueryRaises, SearchFinds(<<>>), SearchFinds(<<Match1>>),
     SearchFinds(<<Match1, Match2, Match3>>), SearchFinds(<<Match2, MatchNoText>>),
     SearchFinds(<<Match3, Match1, Match2, Match4, Match5>>)}

\* What chat.completions.create does: raises, or returns the completion.
ChatRaises == [kind |-> "raise", content |-> <<>>]
ChatCompletes == [kind |-> "completion", content |-> <<"r1">>]

ChatOutcomes == {ChatRaises, ChatCompletes}

\* What a function does: what it raises ("no": nothing), what it returns,
\* the remote calls it made, and the messages of the chat request it sent
\* (if any).
Result(raised, ret, remote, request) ==
    [raised |-> raised, ret |-> ret, remote |-> remote, request |-> request]

NoRequest == [sent |-> FALSE, messages |-> <<>>]

\* `def search_knowledge_base(self, query, top_k=3)`: no caller passes top_k
SearchTopK == 3

\* a faulty variant: the query asks for the four best records
search_knowledge_base_top4(search) ==
    IF search.kind = "embed_raises"
    THEN Result("no", <<>>, <<"embed">>, NoRequest)
    ELSE IF search.kind = "query_raises"
    THEN Result("no", <<>>, <<"embed", "query">>, NoRequest)
    ELSE Result("no", index_query(search.matches, 4), <<"embed", "query">>, NoRequest)

\* PineconeChatbot.search_knowledge_base: a failure of either remote call
\* is caught and an empty result returned
search_knowledge_base(search) ==
    IF search.kind = "embed_raises"
    THEN Result("no", <<>>, <<"embed">>, NoRequest)
    ELSE IF search.kind = "query_raises"
    THEN Result("no", <<>>, <<"embed", "query">>, NoRequest)
    ELSE Result("no", index_query(search.matches, SearchTopK), <<"embed", "query">>,
                NoRequest)

\* search_knowledge_base of pincone_chat.py: no try, the failure propagates
script_search_knowledge_base(search) ==
    IF search.kind = "embed_raises"
    THEN Result("Exception", <<>>, <<"embed">>, NoRequest)
    ELSE IF search.kind = "query_raises"
    THEN Result("Exception", <<>>, <<"embed", "query">>, NoRequest)
    ELSE Result("no", index_query(search.matches, SearchTopK), <<"embed", "query">>,
                NoRequest)

\* a faulty variant: the matches are numbered from the last to the first
context_reversed(matches) ==
    [i \in 1..Len(matches) |-> <<i, matches[Len(matches) + 1 - i].text>>]

\* `context += f"{i+1}. {match['metadata']['text']}\n"`
context_of(matches) == [i \in 1..Len(matches) |-> <<i, matches[i].text>>]

\* the fixed text at the head of system_prompt, up to "Context Information:"
SystemInstruction == <<"instruction">>

\* `system_prompt = """...Context Information:\n""" + context` and the
\* messages argument of chat.completions.create
chat_request(user_question, context) ==
    [sent |-> TRUE,
     messages |-> <<[role |-> "system", content |-> SystemInstruction \o context],
                    [role |-> "user", content |-> user_question]>>]

\* match['metadata']['text'] raises KeyError at a match without text
AnyWithoutText(matches) == \E i \in 1..Len(matches) : ~matches[i].has_text

sorry_msg(e) == <<"Sorry, I encountered an error generating a response: ", e>>

\* a faulty variant: the failure of the chat call is raised
generate_reraises(user_question, matches, chat) ==
    IF AnyWithoutText(matches) THEN Result("KeyError", <<>>, <<>>, NoRequest)
    ELSE IF chat.kind = "raise"
    THEN Result("APIError", <<>>, <<"chat">>,
                chat_request(user_question, context_of(matches)))
    ELSE Result("no", chat.content, <<"chat">>,
                chat_request(user_question, context_of(matches)))

\* a faulty variant: no chat call without matches
generate_needs_context(user_question, matches, chat) ==
    IF matches = <<>>
    THEN Result("no", sorry_msg("no context"), <<>>, NoRequest)
    ELSE Result("no", chat.content, <<"chat">>,
                chat_request(user_question, context_of(matches)))

\* generate_ai_response (both files: the `if search_results and 'matches' in
\* search_results` of chatbot.py is true of every value it is given)
generate_ai_response(user_question, matches, chat) ==
    IF AnyWithoutText(matches)
    THEN Result("KeyError", <<>>, <<>>, NoRequest)
    ELSE LET request == chat_request(user_question, context_of(matches))
         IN IF chat.kind = "raise"
            THEN Result("no", sorry_msg("APIError"), <<"chat">>, request)
            ELSE Result("no", chat.content, <<"chat">>, request)

\* PineconeChatbot.chat_with_ai: the preview loop reads match['metadata']
\* ['text'] too, so a match without text raises before the answer is made
chat_with_ai(user_question, search, chat) ==
    LET s == search_knowledge_base(search) IN
    IF s.raised # "no" THEN s
    ELSE IF AnyWithoutText(s.ret)
    THEN Result("KeyError", <<>>, s.remote, NoRequest)
    ELSE LET g == generate_ai_response(user_question, s.ret, chat) IN
         Result(g.raised, g.ret, s.remote \o g.remote, g.request)

\* chat_with_ai of pincone_chat.py
script_chat_with_ai(user_question, search, chat) ==
    LET s == script_search_knowledge_base(search) IN
    IF s.raised # "no" THEN s
    ELSE IF AnyWithoutText(s.ret)
    THEN Result("KeyError", <<>>, s.remote, NoRequest)
    ELSE LET g == generate_ai_response(user_question, s.ret, chat) IN
         Result(g.raised, g.ret, s.remote \o g.remote, g.request)

\* What connect_to_index finds: list_indexes raises, the index is not
\* listed, describe_index_stats raises, the index is listed with no
\* vectors, or it is listed and holds some.
IndexFindings == {"raises", "missing", "stats_raise", "empty", "loaded"}

\* a faulty variant: an index without vectors is connected to
connect_to_empty(found) ==
    IF found \in {"raises", "missing"}
    THEN Result("SystemExit", <<>>, <<"list_indexes">>, NoRequest)
    ELSE Result(IF found = "stats_raise" THEN "SystemExit" ELSE "no", <<>>,
                <<"list_indexes", "describe_index_stats">>, NoRequest)

\* PineconeChatbot.connect_to_index: exit(1) raises SystemExit, which is
\* not an Exception; neither the handler of connect_to_index nor those of
\* main catch it
connect_to_index(found) ==
    IF found \in {"raises", "missing"}
    THEN Result("SystemExit", <<>>, <<"list_indexes">>, NoRequest)
    ELSE Result(IF found = "loaded" THEN "no" ELSE "SystemExit", <<>>,
                <<"list_indexes", "describe_index_stats">>, NoRequest)

\* PineconeChatbot.__init__ and connect_to_index.  exit(1) raises SystemExit,
\* which neither connect_to_index's nor main's `except Exception` catches.
PineconeChatbot_init(environ, found) ==
    /\ program = "pinecone_chatbot"
    /\ pcb_state = "none"
    /\ IF "PINE_CONE_API_KEY" \notin environ
       THEN /\ pcb_state' = "failed"
            /\ pcb_last' = [op |-> "__init__", arg |-> environ, found |-> "none",
                            input |-> <<>>,
                            search |-> SearchFinds(<<>>), chat |-> ChatRaises,
                            result |-> Result("KeyError", <<>>, <<>>, NoRequest)]
            /\ UNCHANGED clients
       ELSE IF "OPENAI_API_KEY" \notin environ
       THEN /\ pcb_state' = "failed"
            /\ clients' = clients \cup {"Pinecone"}
            /\ pcb_last' = [op |-> "__init__", arg |-> environ, found |-> "none",
                            input |-> <<>>,
                            search |-> SearchFinds(<<>>), chat |-> ChatRaises,
                            result |-> Result("KeyError", <<>>, <<>>, NoRequest)]
       ELSE LET r == connect_to_index(found) IN
            /\ clients' = clients \cup {"Pinecone", "OpenAI"}
            /\ pcb_state' = IF r.raised = "no" THEN "ready" ELSE "exited"
            /\ pcb_last' = [op |-> "__init__", arg |-> environ, found |-> found,
                            input |-> <<>>,
                            search |-> SearchFinds(<<>>), chat |-> ChatRaises,
                            result |-> r]
    /\ UNCHANGED pcb_loop
    /\ UNCHANGED <<program, env, appVars, ciVars, dlVars, pchVars, lcVars, ldrVars>>

\* the questions of run_test_questions and the lines typed at the prompt
PcQuestions == {W_q1, W_q2}

PcLines == {<<>>, <<" ">>, <<" ">> \o <<"Q", "u", "i", "t">>, W_exit,
            <<"B", "Y", "E">> \o <<" ">>, W_stats, W_help, W_history,
            W_q1, <<" ">> \o W_q2, <<"H", "e", "l", "p">> \o <<" ">> \o W_q1}

\* a call of chat_with_ai outside the interactive loop, as each pass of
\* run_test_questions makes
PcbChatWithAi(user_question, search, chat) ==
    /\ program = "pinecone_chatbot"
    /\ pcb_state = "ready" /\ pcb_loop = "off"
    /\ pcb_last' = [op |-> "chat_with_ai", arg |-> {}, found |-> "none", input |-> user_question,
                    search |-> search, chat |-> chat,
                    result |-> chat_with_ai(user_question, search, chat)]
    /\ UNCHANGED <<pcb_state, pcb_loop, clients>>
    /\ UNCHANGED <<program, env, appVars, ciVars, dlVars, pchVars, lcVars, ldrVars>>

\* a direct call of generate_ai_response with search results in hand
PcbGenerate(user_question, matches, chat) ==
    /\ program = "pinecone_chatbot"
    /\ pcb_state = "ready" /\ pcb_loop = "off"
    /\ pcb_last' = [op |-> "generate_ai_response", arg |-> {}, found |-> "none", input |-> user_question,
                    search |-> SearchFinds(matches), chat |-> chat,
                    result |-> generate_ai_response(user_question, matches, chat)]
    /\ UNCHANGED <<pcb_state, pcb_loop, clients>>
    /\ UNCHANGED <<program, env, appVars, ciVars, dlVars, pchVars, lcVars, ldrVars>>

\* PineconeChatbot.run_interactive_chat, up to the first prompt
run_interactive_chat ==
    /\ program = "pinecone_chatbot"
    /\ pcb_state = "ready" /\ pcb_loop = "off"
    /\ pcb_loop' = "on"
    /\ pcb_last' = [op |-> "run_interactive_chat", arg |-> {}, found |-> "none", input |-> <<>>,
                    search |-> SearchFinds(<<>>), chat |-> ChatRaises,
                    result |-> Result("no", <<>>, <<>>, NoRequest)]
    /\ UNCHANGED <<pcb_state, clients>>
    /\ UNCHANGED <<program, env, appVars, ciVars, dlVars, pchVars, lcVars, ldrVars>>

\* the loop's `except Exception`: the error is printed and the loop goes on
loop_catches(r) ==
    IF r.raised = "no" THEN r
    ELSE Result("no", <<"An error occurred: ", r.raised>>, r.remote, r.request)

\* One pass of the while loop of run_interactive_chat.  input is what
\* input() does; stats_ok = FALSE: describe_index_stats raises.
PcbLoopStep(input, text, search, chat, stats_ok) ==
    /\ program = "pinecone_chatbot"
    /\ pcb_state = "ready" /\ pcb_loop = "on"
    /\ LET user_input == strip(text)
           Step(op, loop, r) ==
               /\ pcb_loop' = (IF r.raised = "no" THEN loop ELSE "crashed")
               /\ pcb_last' = [op |-> op, arg |-> {}, found |-> "none", input |-> user_input,
                               search |-> search, chat |-> chat, result |-> r]
       IN IF input = "KeyboardInterrupt"
          THEN Step("loop:interrupt", "ended", Result("no", <<>>, <<>>, NoRequest))
          ELSE IF input = "EOFError"
          THEN Step("loop:error", "on",
                    loop_catches(Result("EOFError", <<>>, <<>>, NoRequest)))
          ELSE IF lower(user_input) \in {W_quit, W_exit, W_bye}
          THEN Step("loop:exit", "ended", Result("no", <<>>, <<>>, NoRequest))
          ELSE IF lower(user_input) = W_stats
          THEN Step("loop:stats", "on",
                    loop_catches(Result(IF stats_ok THEN "no" ELSE "Exception", <<>>,
                                        <<"describe_index_stats">>, NoRequest)))
          ELSE IF lower(user_input) = W_help
          THEN Step("loop:help", "on", Result("no", <<>>, <<>>, NoRequest))
          ELSE IF user_input = <<>>
          THEN Step("loop:empty", "on", Result("no", <<>>, <<>>, NoRequest))
          ELSE Step("loop:question", "on",
                    loop_catches(chat_with_ai(user_input, search, chat)))
    /\ UNCHANGED <<pcb_state, clients>>
    /\ UNCHANGED <<program, env, appVars, ciVars, dlVars, pchVars, lcVars, ldrVars>>

\* a line that is forwarded as a question by run_interactive_chat
IsPcQuestion(text) ==
    /\ strip(text) # <<>>
    /\ lower(strip(text)) \notin {W_quit, W_exit, W_bye, W_stats, W_help}

PcbNext ==
    \/ \E environ \in SUBSET Secrets, found \in IndexFindings :
          PineconeChatbot_init(environ, found)
    \/ \E q \in PcQuestions, search \in SearchOutcomes, chat \in ChatOutcomes :
          PcbChatWithAi(q, search, chat)
    \/ \E q \in PcQuestions, search \in SearchOutcomes, chat \in ChatOutcomes :
          search.kind = "results" /\ PcbGenerate(q, search.matches, chat)
    \/ run_interactive_chat
    \/ \E input \in {"KeyboardInterrupt", "EOFError"} :
          PcbLoopStep(input, <<>>, SearchFinds(<<>>), ChatRaises, TRUE)
    \/ \E text \in PcLines :
          IF IsPcQuestion(text)
          THEN \E search \in SearchOutcomes, chat \in ChatOutcomes :
                  PcbLoopStep("line", text, search, chat, TRUE)
          ELSE \E stats_ok \in BOOLEAN :
                  PcbLoopStep("line", text, SearchFinds(<<>>), ChatRaises, stats_ok)

PcbInit ==
    /\ pcb_state = "none"
    /\ pcb_loop = "off"
    /\ pcb_last = [op |-> "none", arg |-> {}, found |-> "none", input |-> <<>>,
                   search |-> SearchFinds(<<>>), chat |-> ChatRaises,
                   result |-> Result("no", <<>>, <<>>, NoRequest)]

-----------------------------------------------------------------------------
(* pinecone/pincone_chat.py: a script.  Its module-level statements run in  *)
(* order, then the test questions, then the interactive loop; nothing in    *)
(* it catches an exception, so whatever raises ends the process.            *)

\* `test_questions`, five of them
NumTestQuestions == 5

\* the answers "not ready" that describe_index gives before it answers "ready"
MaxPolls == 2

\* `while not pc.describe_index(index_name).status['ready']: time.sleep(1)`
\* when the index answers "not ready" polls times and then "ready": the
\* calls the loop makes and what it raises.  has_time: the module imports
\* time (where it does not, time.sleep raises NameError).
wait_until_ready(polls, has_time) ==
    IF polls = 0 THEN [raised |-> "no", calls |-> <<"describe_index">>]
    ELSE IF ~has_time THEN [raised |-> "NameError", calls |-> <<"describe_index">>]
    ELSE [raised |-> "no", calls |-> [i \in 1..polls + 1 |-> "describe_index"]]

\* `if index_name not in [index.name for index in pc.list_indexes()]`
list_and_create(listed) ==
    IF listed THEN <<"list_indexes">> ELSE <<"list_indexes", "create_index">>

\* the remote calls of the set-up, in order (create_index only when the
\* index is not listed)
setup_calls(listed, polls) ==
    list_and_create(listed) \o <<"embed">> \o wait_until_ready(polls, TRUE).calls
       \o <<"upsert", "describe_index_stats">>

\* what a set-up found: whether the index was listed, the answers "not
\* ready" it was given, and which of its remote calls raised (0: none)
NoSetup == [listed |-> FALSE, polls |-> 0, failAt |-> 0]

PchStep(op, pc, i, input, search, chat, r) ==
    /\ pch_pc' = pc
    /\ pch_i' = i
    /\ pch_last' = [op |-> op, input |-> input, search |-> search, chat |-> chat,
                    result |-> r, setup |-> NoSetup]

\* a step of the set-up
PchSetupStep(op, pc, r, listed, polls, failAt) ==
    /\ pch_pc' = pc
    /\ pch_i' = 0
    /\ pch_last' = [op |-> op, input |-> <<>>, search |-> SearchFinds(<<>>),
                    chat |-> ChatRaises, result |-> r,
                    setup |-> [listed |-> listed, polls |-> polls, failAt |-> failAt]]

\* Lines 11-78: both keys are read, then both clients are made, then the
\* index is set up.  failAt = k > 0: the k-th remote call raises.
PchSetup(listed, failAt, polls) ==
    /\ program = "pincone_chat"
    /\ pch_pc = "start"
    /\ IF ~ (Secrets \subseteq env)
       THEN /\ PchStep("setup", "crashed", 0, <<>>, SearchFinds(<<>>), ChatRaises,
                       Result("KeyError", <<>>, <<>>, NoRequest))
            /\ UNCHANGED clients
       ELSE /\ clients' = clients \cup {"OpenAI", "Pinecone"}
            /\ IF failAt \in 1..Len(setup_calls(listed, polls))
               THEN PchSetupStep("setup", "crashed",
                                 Result("Exception", <<>>,
                                        SubSeq(setup_calls(listed, polls), 1, failAt),
                                        NoRequest),
                                 listed, polls, failAt)
               ELSE PchSetupStep("setup", "tests",
                                 Result("no", <<>>, setup_calls(listed, polls), NoRequest),
                                 listed, polls, 0)
    /\ UNCHANGED <<program, env, appVars, ciVars, dlVars, pcbVars, lcVars, ldrVars>>

\* one pass of `for question in test_questions`
PchTestQuestion(search, chat) ==
    /\ program = "pincone_chat"
    /\ pch_pc = "tests"
    /\ LET r == script_chat_with_ai(W_q1, search, chat) IN
       IF r.raised # "no"
       THEN PchStep("test_question", "crashed", pch_i, W_q1, search, chat, r)
       ELSE PchStep("test_question",
                    IF pch_i + 1 = NumTestQuestions THEN "loop" ELSE "tests",
                    pch_i + 1, W_q1, search, chat, r)
    /\ UNCHANGED clients
    /\ UNCHANGED <<program, env, appVars, ciVars, dlVars, pcbVars, lcVars, ldrVars>>

\* a line that the script's loop forwards as a question
IsScriptQuestion(text) ==
    /\ strip(text) # <<>>
    /\ lower(strip(text)) \notin {W_quit, W_exit, W_bye}

\* One pass of the `while True` of lines 184-194.
PchLoopStep(input, text, search, chat) ==
    /\ program = "pincone_chat"
    /\ pch_pc = "loop"
    /\ LET user_input == strip(text) IN
       IF input # "line"
       THEN PchStep("loop:interrupt", "crashed", pch_i, <<>>, search, chat,
                    Result(input, <<>>, <<>>, NoRequest))
       ELSE IF lower(user_input) \in {W_quit, W_exit, W_bye}
       THEN PchStep("loop:exit", "done", pch_i, user_input, search, chat,
                    Result("no", <<>>, <<>>, NoRequest))
       ELSE IF user_input # <<>>
       THEN LET r == script_chat_with_ai(user_input, search, chat) IN
            PchStep("loop:question", IF r.raised = "no" THEN "loop" ELSE "crashed",
                    pch_i, user_input, search, chat, r)
       ELSE PchStep("loop:empty", "loop", pch_i, user_input, search, chat,
                    Result("no", <<>>, <<>>, NoRequest))
    /\ UNCHANGED clients
    /\ UNCHANGED <<program, env, appVars, ciVars, dlVars, pcbVars, lcVars, ldrVars>>

\* pinecone/pinecone_hello.py: a script without functions and without a
\* handler.  It reads PINE_CONE_API_KEY, creates the index if it is not
\* listed, embeds its six texts, waits for the index, upserts, and makes
\* one query.  The module does not import time.
hello_calls(listed, polls) ==
    LET wait == wait_until_ready(polls, FALSE)
        before == list_and_create(listed) \o <<"embed">> \o wait.calls
    IN IF wait.raised # "no"
       THEN Result(wait.raised, <<>>, before, NoRequest)
       ELSE Result("no", <<>>,
                   before \o <<"upsert", "describe_index_stats", "embed", "query">>,
                   NoRequest)

HelloRun(listed, failAt, polls) ==
    /\ program = "pinecone_hello"
    /\ pch_pc = "start"
    /\ IF "PINE_CONE_API_KEY" \notin env
       THEN /\ PchStep("hello", "crashed", 0, <<>>, SearchFinds(<<>>), ChatRaises,
                       Result("KeyError", <<>>, <<>>, NoRequest))
            /\ UNCHANGED clients
       ELSE /\ clients' = clients \cup {"Pinecone"}
            /\ LET r == hello_calls(listed, polls) IN
               IF failAt \in 1..Len(r.remote)
               THEN PchSetupStep("hello", "crashed",
                                 Result("Exception", <<>>, SubSeq(r.remote, 1, failAt),
                                        NoRequest),
                                 listed, polls, failAt)
               ELSE PchSetupStep("hello", IF r.raised = "no" THEN "done" ELSE "crashed",
                                 r, listed, polls, 0)
    /\ UNCHANGED <<program, env, appVars, ciVars, dlVars, pcbVars, lcVars, ldrVars>>

PchNext ==
    \/ \E listed \in BOOLEAN :
          \/ \E failAt \in 0..8 : HelloRun(listed, failAt, 0)
          \/ \E polls \in 1..MaxPolls : HelloRun(listed, 0, polls)
    \/ \E listed \in BOOLEAN :
          \/ \E failAt \in 0..6 : PchSetup(listed, failAt, 0)
          \/ \E polls \in 1..MaxPolls : PchSetup(listed, 0, polls)
    \/ \E search \in SearchOutcomes, chat \in ChatOutcomes : PchTestQuestion(search, chat)
    \/ \E input \in {"KeyboardInterrupt", "EOFError"} :
          PchLoopStep(input, <<>>, SearchFinds(<<>>), ChatRaises)
    \/ \E text \in PcLines :
          IF IsScriptQuestion(text)
          THEN \E search \in SearchOutcomes, chat \in ChatOutcomes :
                  PchLoopStep("line", text, search, chat)
          ELSE PchLoopStep("line", text, SearchFinds(<<>>), ChatRaises)

PchInit ==
    /\ pch_pc = "start"
    /\ pch_i = 0
    /\ pch_last = [op |-> "none", input |-> <<>>, search |-> SearchFinds(<<>>),
                   chat |-> ChatRaises, result |-> Result("no", <<>>, <<>>, NoRequest),
                   setup |-> NoSetup]

-----------------------------------------------------------------------------
(* langchain/chatbot/chatbot.py: a script.  It indexes data/holidays.pdf    *)
(* and then answers questions in a loop; nothing in it catches an exception.*)

LcStep(op, pc, input, forwarded, raised) ==
    /\ lc_pc' = pc
    /\ lc_last' = [op |-> op, input |-> input, forwarded |-> forwarded,
                   raised |-> raised]

\* Lines 14-50.  file_ok: PyPDFLoader can read data/holidays.pdf;
\* embed_ok: FAISS.from_documents gets its embeddings.
LcSetup(file_ok, embed_ok) ==
    /\ program = "langchain_chatbot"
    /\ lc_pc = "start"
    /\ IF "OPENAI_API_KEY" \notin env
       THEN LcStep("setup", "crashed", <<>>, FALSE, "KeyError") /\ UNCHANGED clients
       ELSE IF ~file_ok
       THEN LcStep("setup", "crashed", <<>>, FALSE, "Exception") /\ UNCHANGED clients
       ELSE IF ~embed_ok
       THEN /\ LcStep("setup", "crashed", <<>>, FALSE, "Exception")
            /\ clients' = clients \cup {"OpenAIEmbeddings"}
       ELSE /\ LcStep("setup", "loop", <<>>, FALSE, "no")
            /\ clients' = clients \cup {"OpenAIEmbeddings", "ChatOpenAI"}
    /\ UNCHANGED <<program, env, appVars, ciVars, dlVars, pcbVars, pchVars, ldrVars>>

\* One pass of the `while True` of lines 53-61: the line is not stripped,
\* and every line but "exit" goes to the chain.
LcLoopStep(input, question, outcome) ==
    /\ program = "langchain_chatbot"
    /\ lc_pc = "loop"
    /\ IF input # "line"
       THEN LcStep("loop:interrupt", "crashed", <<>>, FALSE, input)
       ELSE IF lower(question) = W_exit
       THEN LcStep("loop:exit", "done", question, FALSE, "no")
       ELSE IF outcome.kind = "raise"
       THEN LcStep("loop:question", "crashed", question, TRUE, "Exception")
       ELSE IF ~outcome.has_result
       THEN LcStep("loop:question", "crashed", question, TRUE, "KeyError")
       ELSE LcStep("loop:question", "loop", question, TRUE, "no")
    /\ UNCHANGED clients
    /\ UNCHANGED <<program, env, appVars, ciVars, dlVars, pcbVars, pchVars, ldrVars>>

LcNext ==
    \/ \E file_ok \in BOOLEAN, embed_ok \in BOOLEAN : LcSetup(file_ok, embed_ok)
    \/ \E input \in {"KeyboardInterrupt", "EOFError"} : LcLoopStep(input, <<>>, ChainRaises)
    \/ \E text \in PcLines, outcome \in ChainOutcomes : LcLoopStep("line", text, outcome)

LcInit ==
    /\ lc_pc = "start"
    /\ lc_last = [op |-> "none", input |-> <<>>, forwarded |-> FALSE, raised |-> "no"]

-----------------------------------------------------------------------------
(* pinecone/data_loader.py and pinecone/pinecone_data_loader.py: the two    *)
(* PineconeDataLoader classes.  Both read the folder "data", embed what     *)
(* they read and upsert it into the index.                                  *)

\* a text, by what it says and how many characters it has
Text(tag, len) == [tag |-> tag, len |-> len]

\* text[:n]
truncate(text, n) == [tag |-> text.tag, len |-> Min(text.len, n)]

\* `content[:2000]`, the part of a PDF's text that is embedded
PdfTextLimit == 2000
\* `d['text'][:1000]`, the part of a text kept in the metadata
MetadataTextLimit == 1000

\* a faulty variant: the id leaves out the number of documents loaded
id_without_count(kind, name, n) == <<kind, name, 0>>

\* the ids: f"txt_{filename}_{len(data)}", f"pdf_{filename}_{len(data)}",
\* or the "id" of a JSON item
Id(kind, name, n) == <<kind, name, n>>

\* an item of a JSON file (or the whole file, when it is not a list)
Item(id, text) ==
    [is_dict |-> TRUE, has_id |-> TRUE, id |-> Id("json", id, 0), has_text |-> TRUE,
     text |-> text]

ItemNoText == [Item("n1", Text("", 0)) EXCEPT !.has_text = FALSE]

\* a file of the folder: its sub-folder, basename and extension; ok = it
\* can be read (a .json parses, a .pdf yields its text); text = its
\* stripped content; items = the items of a .json
TxtFile(dir, name, ok, text) ==
    [dir |-> dir, name |-> name, ext |-> "txt", ok |-> ok, text |-> text,
     is_list |-> FALSE, items |-> <<>>]

PdfFile(dir, name, ok, text) ==
    [dir |-> dir, name |-> name, ext |-> "pdf", ok |-> ok, text |-> text,
     is_list |-> FALSE, items |-> <<>>]

JsonFile(dir, name, ok, is_list, items) ==
    [dir |-> dir, name |-> name, ext |-> "json", ok |-> ok, text |-> Text("", 0),
     is_list |-> is_list, items |-> items]

\* the folder "data": whether it exists, and its files in the order glob
\* lists them
Folder(exists, files) == [exists |-> exists, files |-> files]

DataMissing == Folder(FALSE, <<>>)
DataEmpty == Folder(TRUE, <<>>)
DataBlank == Folder(TRUE, <<TxtFile("", "blank", TRUE, Text("", 0)),
                           JsonFile("", "bad", FALSE, FALSE, <<>>),
                           PdfFile("", "scan", FALSE, Text("", 0))>>)
DataTexts == Folder(TRUE, <<TxtFile("a", "notes", TRUE, Text("n1", 40)),
                           TxtFile("b", "notes", TRUE, Text("n2", 1500)),
                           PdfFile("", "book", TRUE, Text("b1", 2500))>>)
DataJsons == Folder(TRUE, <<JsonFile("", "one", TRUE, TRUE,
                                    <<Item("j1", Text("j1", 30)), ItemNoText>>),
                           JsonFile("", "two", TRUE, FALSE, <<Item("j1", Text("j2", 30))>>),
                           TxtFile("", "notes", TRUE, Text("n1", 40))>>)

DataFolders == {DataMissing, DataEmpty, DataBlank, DataTexts, DataJsons}

FilesOf(files, ext) == SelectSeq(files, LAMBDA f : f.ext = ext)

\* the path of a file under the folder, which glob yields
file_path(f) == <<f.dir, f.name, f.ext>>

\* open(path, 'w'): the file is replaced where it is, or added
RECURSIVE write_file(_, _)
write_file(files, f) ==
    IF files = <<>> THEN <<f>>
    ELSE IF Head(files).dir = f.dir /\ Head(files).name = f.name /\ Head(files).ext = f.ext
    THEN <<f>> \o Tail(files)
    ELSE <<Head(files)>> \o write_file(Tail(files), f)

RECURSIVE write_files(_, _)
write_files(files, new) ==
    IF new = <<>> THEN files
    ELSE write_files(write_file(files, Head(new)), Tail(new))

\* a loaded document: the dict appended to `data`
Loaded(item, source, type) ==
    [is_dict |-> item.is_dict, has_id |-> item.has_id, id |-> item.id,
     has_text |-> item.has_text, text |-> item.text, source |-> source, type |-> type]

FromFile(kind, f, n, text, source, type) ==
    [is_dict |-> TRUE, has_id |-> TRUE, id |-> Id(kind, f.name, n), has_text |-> TRUE,
     text |-> text, source |-> source, type |-> type]

\* ---- pinecone/data_loader.py

\* `sample_data`, and the two JSON files it is saved in
SampleIds == <<"vec1", "vec2", "vec3", "vec4", "vec5", "vec6">>

sample_data == [i \in 1..6 |-> Item(SampleIds[i], Text(SampleIds[i], 60))]

basic_create_sample_data(fs) ==
    [data |-> [i \in 1..6 |-> Loaded(sample_data[i], "", "")],
     fs |-> Folder(TRUE, write_files(fs.files,
               <<JsonFile("", "fruits", TRUE, TRUE,
                          <<sample_data[1], sample_data[3], sample_data[5]>>),
                 JsonFile("", "technology", TRUE, TRUE,
                          <<sample_data[2], sample_data[4], sample_data[6]>>)>>)),
     sampled |-> TRUE]

\* create_organized_folder_structure
organized_files ==
    <<JsonFile("fruits", "apple_fruit_info", TRUE, TRUE,
               [i \in 1..4 |-> Item(<<"fruit_1", "fruit_2", "fruit_3", "fruit_4">>[i],
                                    Text("fruit", 60))]),
      JsonFile("technology", "apple_company_info", TRUE, TRUE,
               [i \in 1..4 |-> Item(<<"tech_1", "tech_2", "tech_3", "tech_4">>[i],
                                    Text("tech", 60))]),
      TxtFile("general", "health_benefits", TRUE, Text("health", 130)),
      TxtFile("general", "innovation_history", TRUE, Text("innovation", 150))>>

create_organized_folder_structure(fs) == Folder(TRUE, write_files(fs.files, organized_files))

\* lines 70-81: every item of every JSON file that parses
RECURSIVE basic_load_json(_, _)
basic_load_json(files, data) ==
    IF files = <<>> THEN data
    ELSE LET f == Head(files) IN
         basic_load_json(Tail(files),
             IF f.ok THEN data \o [i \in 1..Len(f.items) |-> Loaded(f.items[i], "", "")]
             ELSE data)

\* lines 84-96: every TXT file that can be read, blank or not
RECURSIVE basic_load_txt(_, _)
basic_load_txt(files, data) ==
    IF files = <<>> THEN data
    ELSE LET f == Head(files) IN
         basic_load_txt(Tail(files),
             IF f.ok THEN Append(data, FromFile("txt", f, Len(data), f.text, "", ""))
             ELSE data)

\* a faulty variant: a missing folder yields no data
missing_folder_aborts(fs) == [data |-> <<>>, fs |-> fs, sampled |-> FALSE]

missing_folder_samples(fs) == basic_create_sample_data(fs)

basic_load_data_from_folder(fs) ==
    IF ~fs.exists THEN missing_folder_samples(fs)
    ELSE LET data == basic_load_txt(FilesOf(fs.files, "txt"),
                        basic_load_json(FilesOf(fs.files, "json"), <<>>))
         IN IF data = <<>> THEN basic_create_sample_data(fs)
            ELSE [data |-> data, fs |-> fs, sampled |-> FALSE]

\* ---- pinecone/pinecone_data_loader.py

\* the files create_sample_data writes: three TXT files and a JSON file
sample_files ==
    <<TxtFile("", "artificial_intelligence", TRUE, Text("ai", 700)),
      TxtFile("", "renewable_energy", TRUE, Text("energy", 700)),
      TxtFile("", "space_exploration", TRUE, Text("space", 700)),
      JsonFile("", "technology_concepts", TRUE, TRUE,
               [i \in 1..4 |-> Item(<<"tech_1", "tech_2", "tech_3", "tech_4">>[i],
                                    Text("concept", 200))])>>

\* lines 126-142: every PDF whose extracted text is not blank
RECURSIVE load_pdf(_, _)
load_pdf(files, data) ==
    IF files = <<>> THEN data
    ELSE LET f == Head(files) IN
         load_pdf(Tail(files),
             IF f.ok /\ f.text.len > 0
             THEN Append(data, FromFile("pdf", f, Len(data),
                                        truncate(f.text, PdfTextLimit), file_path(f), "pdf"))
             ELSE data)

\* lines 145-162: every TXT file whose content is not blank
RECURSIVE load_txt(_, _)
load_txt(files, data) ==
    IF files = <<>> THEN data
    ELSE LET f == Head(files) IN
         load_txt(Tail(files),
             IF f.ok /\ f.text.len > 0
             THEN Append(data, FromFile("txt", f, Len(data), f.text, file_path(f), "txt"))
             ELSE data)

\* `if json_count >= 1`
JsonFileLimit == 1

\* the items of a JSON file that are dicts with a 'text'
json_items(f) ==
    LET kept == SelectSeq(f.items, LAMBDA item : item.is_dict /\ item.has_text)
    IN [i \in 1..Len(kept) |-> Loaded(kept[i], file_path(f), "json")]

\* a faulty variant: every JSON file that parses is loaded
RECURSIVE load_json_all(_, _, _)
load_json_all(files, data, json_count) ==
    IF files = <<>> THEN data
    ELSE LET f == Head(files) IN
         IF ~f.ok THEN load_json_all(Tail(files), data, json_count)
         ELSE load_json_all(Tail(files), data \o json_items(f), json_count + 1)

\* lines 165-190: the first JSON file that parses
RECURSIVE load_json(_, _, _)
load_json(files, data, json_count) ==
    IF files = <<>> THEN data
    ELSE LET f == Head(files) IN
         IF json_count >= JsonFileLimit THEN load_json(Tail(files), data, json_count)
         ELSE IF ~f.ok THEN load_json(Tail(files), data, json_count)
         ELSE load_json(Tail(files), data \o json_items(f), json_count + 1)

load_files(fs) ==
    load_json(FilesOf(fs.files, "json"),
              load_txt(FilesOf(fs.files, "txt"), load_pdf(FilesOf(fs.files, "pdf"), <<>>)),
              0)

\* create_sample_data ends with `return self.load_data_from_folder()`: the
\* folder exists by then and holds the sample TXT files
create_sample_data(fs) ==
    LET written == Folder(TRUE, write_files(fs.files, sample_files))
    IN [data |-> load_files(written), fs |-> written, sampled |-> TRUE]

load_data_from_folder(fs) ==
    IF ~fs.exists THEN create_sample_data(fs)
    ELSE IF load_files(fs) = <<>> THEN create_sample_data(fs)
    ELSE [data |-> load_files(fs), fs |-> fs, sampled |-> FALSE]

\* ---- both classes

Loaders == {"data_loader", "pinecone_data_loader"}

\* the vector upsert_data makes of a document
\* pc.inference.embed answers with one embedding for each input, in the
\* order of the inputs; an embedding is known by the text it was made from
\* and by its dimension, the number of its values
embed(text, dim) == [of |-> text, dim |-> dim]

\* create_embeddings: `inputs=[d['text'] for d in data]`
create_embeddings(data, dim) == [i \in 1..Len(data) |-> embed(data[i].text, dim)]

\* the vector built from a document and an embedding
vector_of(variant, d, e) ==
    [id |-> d.id,
     values |-> e,
     text |-> IF variant = "pinecone_data_loader"
              THEN truncate(d.text, MetadataTextLimit) ELSE d.text]

\* a faulty variant: the embeddings are taken from the last to the first
upsert_vectors_reversed(variant, data, embeddings) ==
    [i \in 1..Min(Len(data), Len(embeddings)) |->
        vector_of(variant, data[i], embeddings[Len(embeddings) + 1 - i])]

\* upsert_data: `for d, e in zip(data, embeddings)`
upsert_vectors(variant, data, embeddings) ==
    [i \in 1..Min(Len(data), Len(embeddings)) |->
        vector_of(variant, data[i], embeddings[i])]

\* `dimension=1024` of create_index
IndexDimension == 1024

\* create_index_if_not_exists, lines 35-46: an index that is listed is
\* left as it is
create_index(index) ==
    IF index.listed THEN index
    ELSE [index EXCEPT !.listed = TRUE, !.dimension = IndexDimension]

\* a faulty variant: the index takes vectors of any dimension
upsert_takes_any(index, vectors) == FALSE

\* The index rejects an upsert that holds a vector whose dimension is not
\* the index's: the call raises and writes nothing.  (The check is made by
\* the index, not by the loaders; it is modelled as the specification of
\* the loaders describes it.)
upsert_rejected(index, vectors) ==
    \E i \in 1..Len(vectors) : vectors[i].values.dim # index.dimension

\* index.upsert: a vector replaces the record with its id; of the vectors
\* of one call with the same id the last one is kept
upsert(records, vectors) ==
    {r \in records : \A i \in 1..Len(vectors) : vectors[i].id # r.id}
       \cup {vectors[i] : i \in {k \in 1..Len(vectors) :
                 \A j \in (k + 1)..Len(vectors) : vectors[j].id # vectors[k].id}}

\* the remote calls of create_index_if_not_exists
index_calls(listed, polls) ==
    list_and_create(listed) \o wait_until_ready(polls, TRUE).calls

\* a run: what it returned, its remote calls, the documents it loaded, the
\* folder and the index after it, and the vectors that it wrote
Ran(ret, remote, data, fs, index) ==
    [ret |-> ret, remote |-> remote, data |-> data, fs |-> fs, index |-> index,
     vectors |-> <<>>]

\* run_data_loading_pipeline.  failAt = k > 0: the k-th remote call of the
\* run raises; every exception makes the run return False.  dim is the
\* dimension of the embeddings that pc.inference.embed returns.
run_data_loading_pipeline(variant, fs, index, organize, failAt, dim, polls) ==
    LET ic == index_calls(index.listed, polls)
        n == Len(ic)
    IN IF failAt \in 1..n
       THEN Ran(FALSE, SubSeq(ic, 1, failAt), <<>>, fs,
                IF failAt >= 3 THEN create_index(index) ELSE index)
       ELSE LET index1 == create_index(index)
                fs1 == IF variant = "data_loader" /\ organize
                       THEN create_organized_folder_structure(fs) ELSE fs
                l == IF variant = "data_loader" THEN basic_load_data_from_folder(fs1)
                     ELSE load_data_from_folder(fs1)
                data == l.data
                vectors == upsert_vectors(variant, data, create_embeddings(data, dim))
            IN IF data = <<>> THEN Ran(FALSE, ic, data, l.fs, index1)
               ELSE IF \E i \in 1..Len(data) : ~data[i].is_dict \/ ~data[i].has_text
               THEN Ran(FALSE, ic, data, l.fs, index1)
               ELSE IF failAt = n + 1
               THEN Ran(FALSE, ic \o <<"embed">>, data, l.fs, index1)
               ELSE IF \E i \in 1..Len(data) : ~data[i].has_id
               THEN Ran(FALSE, ic \o <<"embed">>, data, l.fs, index1)
               ELSE IF failAt = n + 2 \/ upsert_rejected(index1, vectors)
               THEN Ran(FALSE, ic \o <<"embed", "upsert">>, data, l.fs, index1)
               ELSE LET index2 == [index1 EXCEPT !.records = upsert(@, vectors)]
                    IN [Ran(failAt # n + 3,
                            ic \o <<"embed", "upsert", "describe_index_stats">>,
                            data, l.fs, index2) EXCEPT !.vectors = vectors]

\* Before the first run the index is not listed, or it is: then an earlier
\* run of one of these programs has created it.
NoIndex == [listed |-> FALSE, dimension |-> 0, records |-> {}]

\* a dimension of embeddings that do not fit the index
OtherDimension == IndexDimension \div 2

\* the runs of the pipeline by one process
MaxRuns == 2

\* PineconeDataLoader.__init__
PineconeDataLoader_init(environ) ==
    /\ program \in Loaders
    /\ ldr_state = "none"
    /\ IF "PINE_CONE_API_KEY" \notin environ
       THEN /\ ldr_state' = "failed"
            /\ UNCHANGED clients
       ELSE /\ ldr_state' = "ready"
            /\ clients' = clients \cup {"Pinecone"}
    /\ ldr_last' = [op |-> "__init__", environ |-> environ, organize |-> FALSE,
                    failAt |-> 0, dim |-> 0, setup |-> NoSetup, run |-> Ran(FALSE, <<>>, <<>>, ldr_fs, ldr_index)]
    /\ UNCHANGED <<ldr_fs, ldr_index, ldr_runs>>
    /\ UNCHANGED <<program, env, appVars, ciVars, dlVars, pcbVars, pchVars, lcVars>>

LdrRun(organize, failAt, dim, polls) ==
    /\ program \in Loaders
    /\ ldr_state = "ready"
    /\ ldr_runs < MaxRuns
    /\ LET r == run_data_loading_pipeline(program, ldr_fs, ldr_index, organize, failAt,
                                          dim, polls)
       IN /\ ldr_fs' = r.fs
          /\ ldr_index' = r.index
          /\ ldr_last' = [op |-> "run_data_loading_pipeline", environ |-> {},
                          organize |-> organize, failAt |-> failAt, dim |-> dim,
                          setup |-> [listed |-> ldr_index.listed, polls |-> polls,
                                     failAt |-> failAt],
                          run |-> r]
    /\ ldr_runs' = ldr_runs + 1
    /\ UNCHANGED <<ldr_state, clients>>
    /\ UNCHANGED <<program, env, appVars, ciVars, dlVars, pcbVars, pchVars, lcVars>>

\* a file that the user puts into the folder
AddedFile == TxtFile("", "added", TRUE, Text("new", 50))

\* the sequence without its k-th element
RemoveAt(seq, k) == SubSeq(seq, 1, k - 1) \o SubSeq(seq, k + 1, Len(seq))

\* Between two runs the user changes the folder, as main() suggests ("Add
\* more documents to the 'data/' folder", "Run this script again"): a file
\* is added, which glob lists before or after the others, or one is removed.
EditFolder(files) ==
    /\ program \in Loaders
    /\ ldr_state = "ready"
    /\ ldr_last.op = "run_data_loading_pipeline"
    /\ ldr_runs < MaxRuns
    /\ ldr_fs.exists
    /\ files # ldr_fs.files
    /\ ldr_fs' = Folder(TRUE, files)
    /\ ldr_last' = [op |-> "edit_folder", environ |-> {}, organize |-> FALSE,
                    failAt |-> 0, dim |-> 0, setup |-> NoSetup,
                    run |-> Ran(FALSE, <<>>, <<>>, ldr_fs', ldr_index)]
    /\ UNCHANGED <<ldr_state, ldr_index, ldr_runs, clients>>
    /\ UNCHANGED <<program, env, appVars, ciVars, dlVars, pcbVars, pchVars, lcVars>>

LdrNext ==
    \/ \E environ \in SUBSET Secrets : PineconeDataLoader_init(environ)
    \/ \E files \in {<<AddedFile>> \o ldr_fs.files, write_file(ldr_fs.files, AddedFile)} :
          EditFolder(files)
    \/ \E k \in 1..Len(ldr_fs.files) : EditFolder(RemoveAt(ldr_fs.files, k))
    \/ \E organize \in BOOLEAN, failAt \in 0..6 :
          LdrRun(organize, failAt, IndexDimension, 0)
    \/ \E organize \in BOOLEAN : LdrRun(organize, 0, OtherDimension, 0)
    \/ \E organize \in BOOLEAN, polls \in 1..MaxPolls :
          LdrRun(organize, 0, IndexDimension, polls)

LdrInit ==
    /\ ldr_state = "none"
    /\ ldr_fs \in (IF program \in Loaders THEN DataFolders ELSE {DataMissing})
    /\ ldr_index \in (IF program \in Loaders
                      THEN {NoIndex, create_index(NoIndex)}
                      ELSE {NoIndex})
    /\ ldr_runs = 0
    /\ ldr_last = [op |-> "none", environ |-> {}, organize |-> FALSE, failAt |-> 0,
                   dim |-> 0, setup |-> NoSetup, run |-> Ran(FALSE, <<>>, <<>>, ldr_fs, ldr_index)]

-----------------------------------------------------------------------------

Init ==
    /\ program \in Programs
    /\ env \in SUBSET SecretsOf(program)
    /\ AppInit
    /\ CiInit
    /\ DlInit
    /\ PcbInit
    /\ PchInit
    /\ LcInit
    /\ LdrInit

Next == AppNext \/ CiNext \/ DlNext \/ PcbNext \/ PchNext \/ LcNext \/ LdrNext

Spec == Init /\ [][Next]_vars

-----------------------------------------------------------------------------
(* C1: over any sequence of upload passes, every content digest is loaded, *)
(* embedded and added to the vectorstore at most once, and a pass whose    *)
(* files all have digests already in the seen-set leaves the vectorstore   *)
(* unchanged (zero new vector records).                                    *)

StoredFrom(vectorstore, h) ==
    {i \in 1..Len(vectorstore.docs) : file_hash(vectorstore.docs[i].source) = h}

AddedAtMostOnce(vectorstore) ==
    \A i, j \in 1..Len(vectorstore.docs) :
        /\ (i # j => vectorstore.docs[i] # vectorstore.docs[j])
        /\ (file_hash(vectorstore.docs[i].source) = file_hash(vectorstore.docs[j].source)
              => vectorstore.docs[i].source = vectorstore.docs[j].source)

AllSeen(files, seen) == \A i \in 1..Len(files) : file_hash(files[i]) \in seen

C1_DedupIdempotence ==
    [][ /\ \A h \in Digests : app_loads'[h] <= 1 /\ app_embeds'[h] <= 1
        /\ AddedAtMostOnce(st_vectorstore')
        /\ (AllSeen(uploaded_files', file_hashes)
              => st_vectorstore' = st_vectorstore /\ app_embeds' = app_embeds)
      ]_vars

\* a pass that re-submitted indexed bytes and found nothing new
C1_Witness ==
    /\ app_status = "no_new"
    /\ uploaded_files # <<>>
    /\ st_vectorstore.present
    /\ \E i \in 1..Len(uploaded_files) :
          StoredFrom(st_vectorstore, file_hash(uploaded_files[i])) # {}

-----------------------------------------------------------------------------
(* C2 (as amended): since construction or the last clear_history,          *)
(* chat_history holds exactly one entry per ask_question call that the     *)
(* chain answered, in the order the questions were asked; a call that      *)
(* returns an error entry adds nothing; clear_history leaves it empty.     *)

C2_HistoryOfAnswered ==
    /\ Len(chat_history) = Len(ci_answered)
    /\ \A i \in 1..Len(chat_history) : chat_history[i].question = ci_answered[i]
    /\ (ci_last.op = "clear_history" => chat_history = <<>>)

\* three answered cycles, not all with the same question
C2_Witness ==
    /\ Len(chat_history) = 3
    /\ ci_answered = <<W_q2, W_q1, W_q2>>

(* C2 as stated: the history has one entry per ask_question call that      *)
(* returned an entry.                                                      *)
C2_AsStated == Len(chat_history) = ci_returned

-----------------------------------------------------------------------------
(* C3: across every ChatInterface operation other than clear_history the   *)
(* previous chat_history is a prefix of the new one.                       *)

C3_AppendOnly ==
    [][ci_last'.op # "clear_history" => IsPrefix(chat_history, chat_history')]_vars

\* a full history that a display command has just left alone
C3_Witness ==
    /\ Len(chat_history) = MaxCycles
    /\ ci_last.op = "loop:history"
    /\ ci_last.ret = [shown |-> MaxCycles]

-----------------------------------------------------------------------------
(* C4: when the chat-completion call fails, the answer operation does not  *)
(* raise and returns an error text in the place of the answer: ask_question*)
(* returns an entry whose answer is "Error processing question: ...", and  *)
(* generate_ai_response (in PineconeChatbot and in pincone_chat.py, called *)
(* directly, through chat_with_ai or from a loop) returns "Sorry, I        *)
(* encountered an error generating a response: ...".                       *)

ChatCallFailed(last) ==
    /\ last.op \in {"generate_ai_response", "chat_with_ai", "test_question",
                    "loop:question"}
    /\ last.chat = ChatRaises
    /\ "chat" \in Range(last.result.remote)

C4_AnswerFailureIsText ==
    /\ (ci_last.op \in {"ask_question", "loop:question"} /\ ci_last.chain = "raise")
          => ci_last.raised = "no" /\ ci_last.ret.answer = error_msg("APIError")
    /\ ChatCallFailed(pcb_last)
          => pcb_last.result.raised = "no" /\ pcb_last.result.ret = sorry_msg("APIError")
    /\ ChatCallFailed(pch_last)
          => pch_last.result.raised = "no" /\ pch_last.result.ret = sorry_msg("APIError")

C4_Witness ==
    /\ pcb_last.op = "generate_ai_response"
    /\ pcb_last.search = SearchFinds(<<Match1>>)
    /\ pcb_last.chat = ChatRaises
    /\ pcb_last.result.ret = sorry_msg("APIError")

(* C5 as stated: in every interactive loop, a remote failure while a       *)
(* question is answered leaves the loop running.                           *)

RemoteCallFailed(last) ==
    /\ last.op = "loop:question"
    /\ \/ last.search.kind \in {"embed_raises", "query_raises"}
       \/ last.chat = ChatRaises /\ "chat" \in Range(last.result.remote)

C5_LoopsSurviveRemoteFailure ==
    /\ (ci_last.op = "loop:question" /\ ci_last.chain = "raise") => ci_loop.on
    /\ RemoteCallFailed(pcb_last) => pcb_loop = "on"
    /\ RemoteCallFailed(pch_last) => pch_pc = "loop"

(* C6: given no matches (the index returned none, or the search failed and *)
(* an empty result took its place), the answer generator still sends the   *)
(* chat request, with an empty context, and returns text: the completion,  *)
(* or the error text when the chat call itself fails.                      *)

\* the numbered context of a chat request that was sent
SentContext(request) == Tail(request.messages[1].content)

AnsweredWithoutContext(last) ==
    /\ last.result.raised = "no"
    /\ last.result.request.sent
    /\ SentContext(last.result.request) = <<>>
    /\ last.result.request.messages[2].content = last.input
    /\ "chat" \in Range(last.result.remote)
    /\ last.result.ret = IF last.chat = ChatRaises THEN sorry_msg("APIError")
                         ELSE last.chat.content

C6_ZeroContextStillAnswers ==
    /\ ( /\ pcb_last.op \in {"generate_ai_response", "chat_with_ai", "loop:question"}
         /\ pcb_last.search.matches = <<>> )
          => AnsweredWithoutContext(pcb_last)
    /\ ( /\ pch_last.op \in {"test_question", "loop:question"}
         /\ pch_last.search = SearchFinds(<<>>) )
          => AnsweredWithoutContext(pch_last)

C6_Witness ==
    /\ pcb_last.op = "chat_with_ai"
    /\ pcb_last.search = SearchQueryRaises
    /\ pcb_last.result.request.sent
    /\ SentContext(pcb_last.result.request) = <<>>
    /\ pcb_last.result.ret = <<"r1">>

(* C7: when the folder exists and holds no file whose name ends in ".pdf", *)
(* load_pdf_files raises ValueError, and process_folder raises it having   *)
(* called nothing but load_pdf_files; self.documents, self.vectorstore and *)
(* the saved index are as they were.                                       *)

C7_EmptyFolder ==
    [][ ( /\ dl_last'.op \in {"load_pdf_files", "process_folder"}
          /\ dl_last'.arg \in {FolderEmpty, FolderNoPdf} )
           => /\ dl_last'.raised = "ValueError"
              /\ dl_last'.calls = <<"load_pdf_files">>
              /\ UNCHANGED <<dl_documents, dl_vectorstore, dl_disk>>
      ]_vars

C7_Witness ==
    /\ dl_last.op = "process_folder"
    /\ dl_last.arg = FolderNoPdf
    /\ dl_last.raised = "ValueError"
    /\ dl_documents # <<>>
    /\ dl_vectorstore.present

(* C8: a constructor that finds a key missing fails before it creates the  *)
(* client of that service and before any remote call, and nothing else is  *)
(* ever run on the object: ChatInterface and DocumentLoader create no      *)
(* client at all; PineconeChatbot, which reads PINE_CONE_API_KEY first,    *)
(* has created its Pinecone client when OPENAI_API_KEY is the missing one. *)

NoKeyGiven(arg) ==
    arg.key \in {NoneVal, ""} /\ "OPENAI_API_KEY" \notin arg.environ

C8_MissingSecretFatal ==
    /\ (ci_last.op = "__init__" /\ NoKeyGiven(ci_last.ret)) => ci_state = "failed"
    /\ ci_state = "failed"
          => /\ ci_last.op = "__init__" /\ NoKeyGiven(ci_last.ret)
             /\ clients = {}
             /\ ~ci_loop.on /\ chat_history = <<>> /\ ci_vectorstore = NoneVal
    /\ (dl_last.op = "__init__" /\ NoKeyGiven(dl_last.arg)) => dl_state = "failed"
    /\ dl_state = "failed"
          => /\ dl_last.op = "__init__" /\ NoKeyGiven(dl_last.arg)
             /\ clients = {}
             /\ dl_documents = <<>> /\ ~dl_vectorstore.present
    /\ (pcb_last.op = "__init__" /\ ~(Secrets \subseteq pcb_last.arg))
          => pcb_state = "failed"
    /\ pcb_state = "failed"
          => /\ pcb_last.op = "__init__" /\ ~(Secrets \subseteq pcb_last.arg)
             /\ pcb_last.result.remote = <<>>
             /\ pcb_loop = "off"
             /\ clients = IF "PINE_CONE_API_KEY" \in pcb_last.arg
                          THEN {"Pinecone"} ELSE {}

C8_Witness ==
    /\ pcb_state = "failed"
    /\ pcb_last.arg = {"PINE_CONE_API_KEY"}
    /\ clients = {"Pinecone"}

\* C8 as stated: no remote client exists when construction has failed
C8_AsStated ==
    (ci_state = "failed" \/ dl_state = "failed" \/ pcb_state = "failed") => clients = {}

(* C9: a missing folder aborts DocumentLoader (load_pdf_files raises       *)
(* FileNotFoundError, process_folder calls nothing else and the object is  *)
(* unchanged); the two Pinecone loaders instead create the folder "data",  *)
(* fill it with sample files and go on to embed and upsert the sample      *)
(* documents.                                                              *)

\* a pipeline run in which create_index_if_not_exists has returned
LoaderRan ==
    /\ ldr_last'.op = "run_data_loading_pipeline"
    /\ ldr_runs' = ldr_runs + 1
    /\ ldr_last'.failAt \notin 1..Len(index_calls(ldr_index.listed, 0))

C9_MissingFolder ==
    [][ /\ ( /\ dl_last'.op \in {"load_pdf_files", "process_folder"}
             /\ dl_last'.arg = FolderMissing )
              => /\ dl_last'.raised = "FileNotFoundError"
                 /\ dl_last'.calls = <<"load_pdf_files">>
                 /\ UNCHANGED <<dl_documents, dl_vectorstore, dl_disk>>
        /\ (LoaderRan /\ ~ldr_fs.exists)
              => /\ ldr_fs'.exists /\ ldr_fs'.files # <<>>
                 /\ ldr_last'.run.data # <<>>
                 /\ "embed" \in Range(ldr_last'.run.remote)
                 /\ (ldr_last'.failAt = 0 /\ ldr_last'.dim = IndexDimension)
                       => /\ ldr_last'.run.ret
                          /\ "upsert" \in Range(ldr_last'.run.remote)
                 /\ ldr_last'.run.ret
                       => {r.id : r \in ldr_index'.records}
                             = {ldr_last'.run.data[i].id :
                                   i \in 1..Len(ldr_last'.run.data)}
      ]_vars

C9_Witness ==
    /\ ldr_last.op = "run_data_loading_pipeline"
    /\ ldr_last.run.ret
    /\ ldr_runs = 1
    /\ program = "data_loader"
    /\ {r.id : r \in ldr_index.records} = {Id("json", SampleIds[i], 0) : i \in 1..6}
    /\ Len(ldr_fs.files) = 2

\* C9 as stated: a run that finds the folder missing makes no embedding or
\* upsert call
C9_AsStated ==
    [][ /\ ( /\ dl_last'.op \in {"load_pdf_files", "process_folder"}
             /\ dl_last'.arg = FolderMissing )
              => /\ dl_last'.raised # "no"
                 /\ "FAISS.from_documents" \notin Range(dl_last'.calls)
        /\ (LoaderRan /\ ~ldr_fs.exists)
              => /\ "embed" \notin Range(ldr_last'.run.remote)
                 /\ "upsert" \notin Range(ldr_last'.run.remote)
      ]_vars

(* C10: called on an object that has never held a vectorstore, ask_question*)
(* and start_interactive_chat (ChatInterface) and save_vectorstore,        *)
(* get_vector_info, get_retriever and print_vector_samples (DocumentLoader)*)
(* raise ValueError, and get_vectorstore_info returns the dict {"error":   *)
(* "No vectorstore loaded"} without raising; none of them changes state.   *)

CiRaisingOps == {"ask_question", "start_interactive_chat"}

DlStoreOps == {"save_vectorstore", "get_vector_info", "get_retriever",
               "print_vector_samples"}

CiUntouched ==
    UNCHANGED <<ci_state, ci_vectorstore, ci_qa_chain, chat_history, ci_loop,
                ci_ever_held>>

DlUntouched == UNCHANGED <<dl_state, dl_documents, dl_vectorstore, dl_disk, dl_ever_held>>

C10_NoVectorstore ==
    [][ /\ (~ci_ever_held /\ ci_last'.op \in CiRaisingOps)
              => ci_last'.raised = "ValueError" /\ CiUntouched
        /\ (~ci_ever_held /\ ci_last'.op = "get_vectorstore_info")
              => /\ ci_last'.raised = "no"
                 /\ ci_last'.ret = [error |-> "No vectorstore loaded"]
                 /\ CiUntouched
        /\ (~dl_ever_held /\ dl_last'.op \in DlStoreOps)
              => dl_last'.raised = "ValueError" /\ DlUntouched
      ]_vars

C10_Witness ==
    /\ ~dl_ever_held
    /\ dl_documents # <<>>
    /\ dl_last.op = "get_retriever"
    /\ dl_last.raised = "ValueError"

\* C10 as stated: every one of the operations raises
C10_AsStated ==
    [][ /\ (~ci_ever_held /\ ci_last'.op \in CiRaisingOps \cup {"get_vectorstore_info"})
              => ci_last'.raised # "no" /\ CiUntouched
        /\ (~dl_ever_held /\ dl_last'.op \in DlStoreOps)
              => dl_last'.raised # "no" /\ DlUntouched
      ]_vars

-----------------------------------------------------------------------------
(* C11: a question is forwarded to retrieval or to the chat model only in  *)
(* a process that holds an index (Indexed), and when the question has been *)
(* dealt with the process is Indexed again: it still holds the index and   *)
(* is still running.                                                       *)

\* the last step of a Pinecone program forwarded a question
Forwarded(last) ==
    /\ last.op \in {"generate_ai_response", "chat_with_ai", "test_question",
                    "loop:question"}
    /\ last.result.remote # <<>>

AppForwarded == app_query \in {"answered", "raised"}

C11_QueryingFromAndToIndexed ==
    /\ AppForwarded => st_vectorstore.present
    /\ ci_last.chain # "none" => ci_state = "ready" /\ ci_qa_chain \in Stores
    /\ Forwarded(pcb_last) => pcb_state = "ready" /\ pcb_loop \in {"off", "on"}
    /\ Forwarded(pch_last) => pch_pc \in {"tests", "loop"}
    /\ lc_last.forwarded => lc_pc = "loop"

\* the first half alone: the step that forwards a question starts in a
\* process that holds an index
C11_QueryOnlyWhenIndexed ==
    [][ /\ (AppForwarded' /\ app_query' # app_query) => st_vectorstore'.present
        /\ (ci_last'.chain # "none" /\ ci_last' # ci_last)
              => ci_state = "ready" /\ ci_qa_chain \in Stores
        /\ (Forwarded(pcb_last') /\ pcb_last' # pcb_last) => pcb_state = "ready"
        /\ (Forwarded(pch_last') /\ pch_last' # pch_last) => pch_pc \in {"tests", "loop"}
        /\ (lc_last'.forwarded /\ lc_last' # lc_last) => lc_pc = "loop"
      ]_vars

-----------------------------------------------------------------------------
(* C12: the interactive loops compare the stripped, lower-cased line with  *)
(* the command words: exit and history (ChatInterface) and quit, exit,     *)
(* bye, stats and help (PineconeChatbot) are commands only as the whole    *)
(* line, 'sources' is a command as a prefix of the line.  A line taken for *)
(* a command is not forwarded; any other non-empty line is a question,     *)
(* also one that starts with or contains a command word.                   *)

CiLineOps == {"loop:empty", "loop:exit", "loop:history", "loop:sources", "loop:question"}

PcLineOps == {"loop:empty", "loop:exit", "loop:stats", "loop:help", "loop:question"}

\* the last step made no retrieval and no chat call
PcbNotForwarded == Range(pcb_last.result.remote) \subseteq {"describe_index_stats"}

C12_CommandsMatchWholeLine ==
    /\ ci_last.op \in CiLineOps =>
          LET l == lower(strip(ci_last.line)) IN
          /\ ci_last.op = "loop:exit" <=> l = W_exit
          /\ ci_last.op = "loop:history" <=> l = W_history
          /\ ci_last.op = "loop:sources" <=> startswith(l, W_sources)
          /\ ci_last.op = "loop:empty" <=> l = <<>>
          /\ ci_last.op # "loop:question" => ci_last.chain = "none"
    /\ pcb_last.op \in PcLineOps =>
          LET l == lower(pcb_last.input) IN
          /\ pcb_last.op = "loop:exit" <=> l \in {W_quit, W_exit, W_bye}
          /\ pcb_last.op = "loop:stats" <=> l = W_stats
          /\ pcb_last.op = "loop:help" <=> l = W_help
          /\ pcb_last.op = "loop:empty" <=> l = <<>>
          /\ pcb_last.op # "loop:question" => PcbNotForwarded

\* a line that starts with 'exit' was forwarded to the QA chain, and a line
\* that starts with 'help' to retrieval
C12_Witness ==
    \/ /\ ci_last.op = "loop:question" /\ ci_last.chain # "none"
       /\ startswith(lower(strip(ci_last.line)), W_exit)
    \/ /\ pcb_last.op = "loop:question" /\ ~PcbNotForwarded
       /\ startswith(lower(pcb_last.input), W_help)

\* C12 as stated: a line in which a command word matches as a prefix or a
\* substring, whatever the case, is handled as the command and not forwarded
C12_AsStated ==
    /\ (/\ ci_last.op \in CiLineOps
        /\ \E w \in {W_exit, W_history, W_sources} : contains(lower(ci_last.line), w))
          => ci_last.op # "loop:question" /\ ci_last.chain = "none"
    /\ (/\ pcb_last.op \in PcLineOps
        /\ \E w \in {W_exit, W_stats, W_help} : contains(lower(pcb_last.input), w))
          => pcb_last.op # "loop:question" /\ PcbNotForwarded

-----------------------------------------------------------------------------
(* C13: a retrieval made for a question asks the index for a fixed number  *)
(* of records, 4 in ChatInterface and 3 in PineconeChatbot and             *)
(* pincone_chat.py, and hands the records on in the order of the index's   *)
(* ranking: the sources of an answer are the first 4 ranked documents, the *)
(* context of a chat request the first 3 ranked matches.  get_retriever    *)
(* asks for 4 unless the caller passes search_kwargs.                      *)

\* the first k of a ranking, or all of it when it is shorter
FirstOf(ranked, k) == IF Len(ranked) < k THEN Len(ranked) ELSE k

CiAnsweredFromSources ==
    /\ ci_last.op \in {"ask_question", "loop:question"}
    /\ ci_last.raised = "no" /\ ci_last.chain = "response"
    /\ ci_last.ret.answer \notin {error_msg("APIError"), error_msg("AttributeError")}

\* the last step searched the index, found records and sent a chat request
SearchedAndAsked(last) ==
    /\ last.op \in {"chat_with_ai", "test_question", "loop:question"}
    /\ last.search.kind = "results"
    /\ last.result.request.sent

ContextIsFirst(last, k) ==
    /\ Len(SentContext(last.result.request)) = FirstOf(last.search.matches, k)
    /\ \A i \in 1..Len(SentContext(last.result.request)) :
          SentContext(last.result.request)[i] = <<i, last.search.matches[i].text>>

SourcesAreFirst(k) ==
    /\ Len(ci_last.ret.sources) = FirstOf(ci_last.ranked, k)
    /\ \A i \in 1..Len(ci_last.ret.sources) :
          ci_last.ret.sources[i] = source_info(ci_last.ranked[i])

C13_RetrieverPolicy ==
    /\ CiAnsweredFromSources => SourcesAreFirst(4)
    /\ SearchedAndAsked(pcb_last) => ContextIsFirst(pcb_last, 3)
    /\ SearchedAndAsked(pch_last) => ContextIsFirst(pch_last, 3)
    /\ (dl_last.op = "get_retriever" /\ dl_last.raised = "no")
          => dl_last.ret = <<IF dl_last.arg.search_k = 0 THEN 4
                             ELSE dl_last.arg.search_k>>

\* PineconeChatbot answered in its loop from an index that ranks five
\* records: three of them are in the chat request
C13_Witness ==
    /\ pcb_last.op = "loop:question"
    /\ SearchedAndAsked(pcb_last)
    /\ Len(pcb_last.search.matches) = 5
    /\ Len(SentContext(pcb_last.result.request)) = 3

\* C13 as stated: every retrieval asks for the top 4
C13_AsStated ==
    /\ CiAnsweredFromSources => SourcesAreFirst(4)
    /\ SearchedAndAsked(pcb_last) => ContextIsFirst(pcb_last, 4)
    /\ SearchedAndAsked(pch_last) => ContextIsFirst(pch_last, 4)
    /\ (dl_last.op = "get_retriever" /\ dl_last.raised = "no") => dl_last.ret = <<4>>

\* ChatInterface answered from an index that ranks five documents
C13_FourSources ==
    /\ CiAnsweredFromSources
    /\ Len(ci_last.ranked) = 5 /\ Len(ci_last.ret.sources) = 4

-----------------------------------------------------------------------------
(* C14: a chat request made for a question and n matches has exactly two   *)
(* messages: a system message, the fixed instruction followed by the       *)
(* matches' texts numbered 1..n in the order of the matches, and a user    *)
(* message, the question as it was given.                                  *)

\* the matches that the last step gave to generate_ai_response
MatchesGiven(last) ==
    IF last.op = "generate_ai_response" THEN last.search.matches
    ELSE SubSeq(last.search.matches, 1, FirstOf(last.search.matches, SearchTopK))

PromptAssembled(last) ==
    LET messages == last.result.request.messages
        given == MatchesGiven(last)
    IN
    /\ Len(messages) = 2
    /\ messages[1].role = "system"
    /\ Len(messages[1].content) = 1 + Len(given)
    /\ messages[1].content[1] = "instruction"
    /\ \A i \in 1..Len(given) : messages[1].content[i + 1] = <<i, given[i].text>>
    /\ messages[2].role = "user"
    /\ messages[2].content = last.input

C14_PromptAssembly ==
    /\ pcb_last.result.request.sent => PromptAssembled(pcb_last)
    /\ pch_last.result.request.sent => PromptAssembled(pch_last)

\* generate_ai_response was given three matches with different texts
C14_Witness ==
    /\ pcb_last.op = "generate_ai_response"
    /\ pcb_last.result.request.sent
    /\ pcb_last.search.matches = <<Match1, Match2, Match3>>
    /\ pcb_last.input = W_q2

-----------------------------------------------------------------------------
(* C15: a run that loads the documents d_1..d_n and gets as far as the     *)
(* upsert writes exactly n vectors, the i-th with d_i's id, the embedding  *)
(* made from d_i's text and, as metadata text, d_i's text (data_loader.py) *)
(* or the first 1000 characters of it (pinecone_data_loader.py).           *)

\* the last step was a run whose upsert call was made and did not fail
Upserted ==
    /\ ldr_last.op = "run_data_loading_pipeline"
    /\ "describe_index_stats" \in Range(ldr_last.run.remote)

PairedWith(vectors, data) ==
    /\ Len(vectors) = Len(data)
    /\ \A i \in 1..Len(data) :
          /\ vectors[i].id = data[i].id
          /\ vectors[i].values.of = data[i].text

C15_EmbedUpsertPairing ==
    Upserted =>
       LET vectors == ldr_last.run.vectors
           data == ldr_last.run.data
       IN /\ data # <<>>
          /\ PairedWith(vectors, data)
          /\ \A i \in 1..Len(data) :
                /\ vectors[i].text.tag = data[i].text.tag
                /\ vectors[i].text.len =
                      IF program = "pinecone_data_loader" /\ data[i].text.len > 1000
                      THEN 1000 ELSE data[i].text.len
                /\ vectors[i] \in ldr_index.records

\* pinecone_data_loader.py wrote the vectors of several documents, one of
\* them longer than 1000 characters
C15_Witness ==
    /\ Upserted
    /\ program = "pinecone_data_loader"
    /\ Len(ldr_last.run.data) > 1
    /\ \E i \in 1..Len(ldr_last.run.data) : ldr_last.run.data[i].text.len > 1000

\* C15 as stated: the metadata text of the i-th vector is d_i's text
C15_AsStated ==
    Upserted =>
       /\ PairedWith(ldr_last.run.vectors, ldr_last.run.data)
       /\ \A i \in 1..Len(ldr_last.run.data) :
             ldr_last.run.vectors[i].text = ldr_last.run.data[i].text

-----------------------------------------------------------------------------
(* C16: the loaders create their index with dimension 1024, every vector   *)
(* in the index has 1024 values, and a run whose embeddings have another   *)
(* dimension has its upsert rejected: it writes nothing and returns False. *)

-----------------------------------------------------------------------------
(* C18: a program that fills a Pinecone index creates the index only if it *)
(* is not listed, issues no upsert before describe_index has answered      *)
(* "ready", and keeps polling, with no limit of its own, for as long as    *)
(* the answer is "not ready".                                              *)

\* the number of calls of name among the first n of a sequence of calls
RECURSIVE CountIn(_, _, _)
CountIn(calls, name, n) ==
    IF n = 0 THEN 0
    ELSE CountIn(calls, name, n - 1) + (IF calls[n] = name THEN 1 ELSE 0)

\* create_index is called only for an index that is not listed, and before
\* an upsert the index has answered "ready" (its answer number polls + 1)
ReadyBeforeUpsert(remote, setup) ==
    /\ "create_index" \in Range(remote) => ~setup.listed
    /\ \A i \in 1..Len(remote) :
          remote[i] = "upsert"
             => CountIn(remote, "describe_index", i) = setup.polls + 1

\* a wait loop that was entered, and in which no remote call raised, has
\* polled until the answer "ready"
PolledUntilReady(remote, setup) ==
    ("describe_index" \in Range(remote) /\ setup.failAt = 0)
       => CountIn(remote, "describe_index", Len(remote)) = setup.polls + 1

C18_IndexReadinessOrdering ==
    /\ ldr_last.op = "run_data_loading_pipeline"
          => /\ ReadyBeforeUpsert(ldr_last.run.remote, ldr_last.setup)
             /\ PolledUntilReady(ldr_last.run.remote, ldr_last.setup)
    /\ pch_last.op \in {"setup", "hello"}
          => /\ ReadyBeforeUpsert(pch_last.result.remote, pch_last.setup)
             /\ PolledUntilReady(pch_last.result.remote, pch_last.setup)

\* the first part alone, in every program
C18_NoUpsertBeforeReady ==
    /\ ldr_last.op = "run_data_loading_pipeline"
          => ReadyBeforeUpsert(ldr_last.run.remote, ldr_last.setup)
    /\ pch_last.op \in {"setup", "hello"}
          => ReadyBeforeUpsert(pch_last.result.remote, pch_last.setup)

\* a loader upserted after two answers "not ready"
C18_PolledTwice ==
    /\ ldr_last.op = "run_data_loading_pipeline"
    /\ ldr_last.setup.polls = 2
    /\ "upsert" \in Range(ldr_last.run.remote)

-----------------------------------------------------------------------------
(* C19: a PineconeChatbot whose index is not listed, holds no vectors or   *)
(* cannot be asked (list_indexes or describe_index_stats raises) exits in  *)
(* its constructor; a process that has not constructed a chatbot on an     *)
(* index with vectors processes no test question and no input line.        *)

C19_NoChatWithoutKnowledgeBase ==
    /\ (/\ pcb_last.op = "__init__"
        /\ Secrets \subseteq pcb_last.arg
        /\ pcb_last.found \in {"raises", "missing", "stats_raise", "empty"})
          => /\ pcb_state = "exited"
             /\ pcb_last.result.raised = "SystemExit"
    /\ pcb_state \in {"exited", "failed"}
          => /\ pcb_last.op = "__init__"
             /\ pcb_loop = "off"
             /\ "embed" \notin Range(pcb_last.result.remote)
    /\ pcb_last.op \notin {"none", "__init__"} => pcb_state = "ready"

\* the constructor has exited on an index without vectors
C19_Witness ==
    /\ pcb_state = "exited"
    /\ pcb_last.found = "empty"
    /\ pcb_last.result.remote = <<"list_indexes", "describe_index_stats">>

-----------------------------------------------------------------------------
(* C20: in the loop of start_interactive_chat a line that starts with      *)
(* 'sources', in any case, is taken for the sources command: it sets       *)
(* show_sources to off if the line contains 'off', in any case, and to on  *)
(* otherwise, without invoking the QA chain or changing chat_history.  No  *)
(* other pass of the loop changes the setting, and the answer to a         *)
(* question is printed with its sources exactly when the setting is on.    *)

C20_SourcesToggle ==
    [][ /\ ( /\ ci_last'.op \in CiLineOps
             /\ startswith(lower(strip(ci_last'.line)), W_sources) )
              => ci_last'.op = "loop:sources"
        /\ ci_last'.op = "loop:sources"
              => /\ ci_loop'.on
                 /\ ci_loop'.show_sources = ~contains(lower(ci_last'.line), W_off)
                 /\ ci_last'.chain = "none"
                 /\ UNCHANGED <<chat_history, ci_returned, ci_answered>>
        /\ (ci_loop.on /\ ci_loop'.on /\ ci_last'.op # "loop:sources")
              => ci_loop'.show_sources = ci_loop.show_sources
        /\ (ci_last'.op = "loop:question" /\ ci_last'.raised = "no")
              => /\ ci_last'.printed.answer = ci_last'.ret.answer
                 /\ ci_last'.printed.sources =
                       IF ci_loop.show_sources THEN ci_last'.ret.sources ELSE <<>>
      ]_vars

\* with the display turned off, a question was answered from sources and
\* printed without them, and two entries are in the history
C20_Witness ==
    /\ ci_last.op = "loop:question"
    /\ ~ci_loop.show_sources
    /\ ci_last.ret.sources # <<>>
    /\ ci_last.printed.sources = <<>>
    /\ Len(chat_history) = 2

-----------------------------------------------------------------------------
(* C21: the documents that one load_data_from_folder pass of               *)
(* PineconeDataLoader takes from JSON files all come from one file, however*)
(* many JSON files the folder holds, and each of them is an item of that   *)
(* file that is an object with a 'text' field.                             *)

JsonRecords(data) == {i \in 1..Len(data) : data[i].type = "json"}

\* the document is an item with a 'text' of a JSON file of the folder
FromJsonFile(d, fs) ==
    \E k \in 1..Len(fs.files) :
        LET f == fs.files[k]
        IN /\ f.ext = "json" /\ f.ok
           /\ file_path(f) = d.source
           /\ \E j \in 1..Len(f.items) :
                 /\ f.items[j].is_dict /\ f.items[j].has_text
                 /\ d = Loaded(f.items[j], file_path(f), "json")

C21_JsonFileLimit ==
    (program = "pinecone_data_loader" /\ ldr_last.op = "run_data_loading_pipeline")
       => LET data == ldr_last.run.data
          IN /\ Cardinality({data[i].source : i \in JsonRecords(data)}) <= JsonFileLimit
             /\ \A i \in JsonRecords(data) : FromJsonFile(data[i], ldr_last.run.fs)

\* a folder with two JSON files that parse and hold a text, the first of
\* them with an item without 'text', was loaded, and a JSON item is among
\* the documents
C21_Witness ==
    /\ program = "pinecone_data_loader"
    /\ ldr_last.op = "run_data_loading_pipeline"
    /\ JsonRecords(ldr_last.run.data) # {}
    /\ LET files == FilesOf(ldr_last.run.fs.files, "json")
       IN /\ Cardinality({k \in 1..Len(files) :
                 /\ files[k].ok
                 /\ \E j \in 1..Len(files[k].items) : files[k].items[j].has_text}) >= 2
          /\ \E j \in 1..Len(files[1].items) : ~files[1].items[j].has_text

-----------------------------------------------------------------------------
(* C22: a pass of an interactive loop that reads an empty line, or a line  *)
(* of white space only, makes no retrieval call and no chat call, leaves   *)
(* the history as it is, and ends with the loop waiting for the next line. *)

\* the pass of the loop of ChatInterface, PineconeChatbot and
\* pincone_chat.py that reads a blank line
BlankIgnoredWhereStripped ==
    /\ (ci_last'.op \in CiLineOps /\ strip(ci_last'.line) = <<>>)
          => /\ ci_last'.op = "loop:empty"
             /\ ci_last'.chain = "none"
             /\ UNCHANGED <<chat_history, ci_returned, ci_answered, ci_loop>>
    /\ (pcb_last'.op \in PcLineOps /\ pcb_last'.input = <<>>)
          => /\ pcb_last'.op = "loop:empty"
             /\ pcb_last'.result.remote = <<>>
             /\ ~pcb_last'.result.request.sent
             /\ pcb_loop' = "on"
    /\ (pch_last'.op \in PcLineOps /\ pch_last'.input = <<>>)
          => /\ pch_last'.op = "loop:empty"
             /\ pch_last'.result.remote = <<>>
             /\ ~pch_last'.result.request.sent
             /\ pch_pc' = "loop"

\* the pass of the loop of langchain/chatbot/chatbot.py
BlankIgnoredInScript ==
    (lc_last'.op \in {"loop:exit", "loop:question"} /\ strip(lc_last'.input) = <<>>)
       => /\ ~lc_last'.forwarded
          /\ lc_pc' = "loop"

C22_BlankInputIgnored == [][BlankIgnoredWhereStripped /\ BlankIgnoredInScript]_vars

\* C22, for the three loops that strip the line: start_interactive_chat,
\* run_interactive_chat and the loop of pincone_chat.py ignore a blank line
C22_BlankIgnoredWhereStripped == [][BlankIgnoredWhereStripped]_vars

\* each of the three loops has read a blank line
C22_WitnessChatInterface ==
    /\ ci_last.op = "loop:empty" /\ ci_last.line = <<" ", " ">> /\ chat_history # <<>>

C22_WitnessPinecone ==
    /\ program \in {"pinecone_chatbot", "pincone_chat"}
    /\ "loop:empty" \in {pcb_last.op, pch_last.op}

\* the loop of langchain/chatbot/chatbot.py has sent a blank line to the chain
C22_BlankForwarded ==
    /\ lc_last.op = "loop:question"
    /\ strip(lc_last.input) = <<>>
    /\ lc_last.forwarded

-----------------------------------------------------------------------------
(* C23: in every state of an app.py session, each hash in file_hashes is   *)
(* the hash of a file with chunks in the session's vectorstore: no file is *)
(* left marked as seen without being indexed, also not after a run in      *)
(* which splitting or embedding has failed.                                *)

C23_SeenFilesAreIndexed ==
    \A h \in file_hashes : StoredFrom(st_vectorstore, h) # {}

\* the converse: chunks in the vectorstore come from files marked as seen
C23_IndexedFilesAreSeen ==
    \A i \in 1..Len(st_vectorstore.docs) :
        file_hash(st_vectorstore.docs[i].source) \in file_hashes

\* a run marked a file whose pages were read and then failed to embed them;
\* the next run finds nothing new, and the file is in no vectorstore
C23_MarkedNotIndexed ==
    /\ app_status = "no_new"
    /\ uploaded_files # <<>>
    /\ \A i \in 1..Len(uploaded_files) :
          /\ file_hash(uploaded_files[i]) \in file_hashes
          /\ app_embeds[file_hash(uploaded_files[i])] = 1
          /\ StoredFrom(st_vectorstore, file_hash(uploaded_files[i])) = {}

-----------------------------------------------------------------------------
(* C24: after any sequence of load_vectorstore and set_vectorstore calls   *)
(* of a ChatInterface, also calls that raise, a qa_chain that is set was   *)
(* built from the vectorstore that self.vectorstore holds.                 *)

C24_ChainOfHeldVectorstore ==
    ci_qa_chain # NoneVal => ci_qa_chain = ci_vectorstore

\* C24, for the calls that return: after a load_vectorstore or a
\* set_vectorstore call that did not raise, the chain is the one built from
\* the vectorstore held
C24_AfterCallThatReturns ==
    (ci_last.op \in {"load_vectorstore", "set_vectorstore"} /\ ci_last.raised = "no")
       => ci_qa_chain # NoneVal /\ ci_qa_chain = ci_vectorstore

\* a second store was set and its chain built
C24_WitnessReplaced ==
    /\ ci_last.op = "set_vectorstore" /\ ci_last.raised = "no"
    /\ ci_ever_held
    /\ ci_vectorstore = "vsB" /\ ci_qa_chain = "vsB"

\* set_vectorstore(None) has raised and left the chain of the store held
\* before
C24_StaleChainAfterNone ==
    /\ ci_last.op = "set_vectorstore" /\ ci_last.raised = "ValueError"
    /\ ci_vectorstore = NoneVal
    /\ ci_qa_chain \in Stores

\* the set-up of the chain has raised after a new store was assigned
C24_StaleChainAfterSetUpFailure ==
    /\ ci_last.op \in {"load_vectorstore", "set_vectorstore"}
    /\ ci_last.raised = "Exception"
    /\ ci_vectorstore \in Stores /\ ci_qa_chain \in Stores
    /\ ci_qa_chain # ci_vectorstore

-----------------------------------------------------------------------------
(* C25: an ask_question call in which the invocation of the QA chain       *)
(* raises, or the processing of its response raises, leaves chat_history   *)
(* as it was and returns an entry with the question, the error message as  *)
(* its answer and an empty list of sources.                                *)

\* the last call invoked the chain and failed in the invocation or in the
\* loop over the source documents it was given
AskFailed(last) ==
    /\ last.op \in {"ask_question", "loop:question"}
    /\ \/ last.chain = "raise"
       \/ /\ last.chain = "response"
          /\ ProcessingRaises(index_query(last.ranked, RetrieverK))

C25_FailedAskLeavesHistory ==
    [][ AskFailed(ci_last')
          => /\ chat_history' = chat_history
             /\ ci_last'.raised = "no"
             /\ ci_last'.ret.answer \in {error_msg("APIError"), error_msg("AttributeError")}
             /\ ci_last'.ret.sources = <<>>
             /\ ci_last'.ret.question \in Questions \cup {strip(ci_last'.line)}
      ]_vars

\* with two entries in the history, the processing of a response has
\* failed on a document whose metadata is None
C25_Witness ==
    /\ ci_last.op = "ask_question"
    /\ ci_last.chain = "response"
    /\ ci_last.ret = ErrorEntry(W_q2, "AttributeError")
    /\ Len(chat_history) = 2
    /\ \A i \in 1..2 : chat_history[i].sources # <<>>

-----------------------------------------------------------------------------
(* C26: over the runs of a Pinecone data-loading pipeline the index never  *)
(* holds the text of one TXT or PDF file under two different generated     *)
(* ids: a file whose name and content are unchanged gets the same id in    *)
(* every run, also when files were added to or removed from the folder     *)
(* between the runs, so that the upsert replaces its record.               *)

\* the id was generated for a file: f"txt_{filename}_{len(data)}" or
\* f"pdf_{filename}_{len(data)}"
Generated(id) == id[1] \in {"txt", "pdf"}

C26_StableRecordIds ==
    \A r1, r2 \in ldr_index.records :
        ( /\ Generated(r1.id) /\ Generated(r2.id)
          /\ r1.id[1] = r2.id[1] /\ r1.id[2] = r2.id[2]
          /\ r1.text = r2.text )
           => r1.id = r2.id

\* C26, for a folder that is as it was: a run that loads the documents the
\* index holds already leaves the records of the index as they are
C26_UnchangedFolderReplaces ==
    [][ ( /\ ldr_last'.op = "run_data_loading_pipeline"
          /\ ldr_last'.run.vectors # <<>>
          /\ Range(ldr_last'.run.vectors) \subseteq ldr_index.records )
           => ldr_index'.records = ldr_index.records
      ]_vars

\* a second run on the unchanged folder has replaced the records of its
\* TXT files
C26_WitnessReplaced ==
    /\ ldr_runs = 2
    /\ ldr_last.op = "run_data_loading_pipeline"
    /\ ldr_last.run.vectors # <<>>
    /\ \E i \in 1..Len(ldr_last.run.vectors) : Generated(ldr_last.run.vectors[i].id)
    /\ Range(ldr_last.run.vectors) = ldr_index.records

\* after a file was added to the folder, the second run has stored the
\* text of an unchanged file under a second id
C26_StoredTwice ==
    /\ ldr_runs = 2
    /\ AddedFile \in Range(ldr_last.run.fs.files)
    /\ \E r1, r2 \in ldr_index.records :
          /\ Generated(r1.id) /\ r1.text = r2.text /\ r1.id[2] = r2.id[2]
          /\ r1.id[3] # r2.id[3]

-----------------------------------------------------------------------------
(* C27: the ids that one load_data_from_folder pass generates for TXT and  *)
(* PDF files (prefix, base name of the file, number of documents loaded so *)
(* far) are pairwise distinct, also for files of different sub-folders     *)
(* with the same base name.                                                *)

GeneratedIn(data) == {i \in 1..Len(data) : Generated(data[i].id)}

C27_GeneratedIdsDistinct ==
    ldr_last.op = "run_data_loading_pipeline"
       => LET data == ldr_last.run.data
          IN \A i, j \in GeneratedIn(data) : i # j => data[i].id # data[j].id

\* a pass has loaded two TXT files with the same base name from two
\* sub-folders, and a PDF file
C27_Witness ==
    /\ program = "pinecone_data_loader"
    /\ ldr_last.op = "run_data_loading_pipeline"
    /\ LET data == ldr_last.run.data
       IN /\ \E i, j \in GeneratedIn(data) :
                /\ i # j
                /\ data[i].id[1] = data[j].id[1] /\ data[i].id[2] = data[j].id[2]
                /\ data[i].source # data[j].source
          /\ \E i \in GeneratedIn(data) : data[i].id[1] = "pdf"

====
